---- MODULE Spec2Model ----
(***************************************************************************)
(* Telemetry ingestion of the PC-stats dashboard firmware (src/src/main.cpp):*)
(* the serial line accumulator of loop(), the CSV parser parseCSVLine, the   *)
(* shared Stats snapshot `cur` and the three 60-sample history rings; the    *)
(* bar animation, the touch gestures and the frame pacing of loop(); the     *)
(* weather fetch (weather_api.cpp), its timer (weather_integration.cpp) and  *)
(* the start-up path of setup() with the portal check (config_portal.cpp).   *)
(*                                                                           *)
(* Characters are one-character strings, a String is a sequence of them.     *)
(* A float is modelled as an exact decimal counted in thousandths (12.5 is   *)
(* 12500); the inputs of the model carry at most three fractional digits and *)
(* no exponent, so every value is exact in this representation. The one      *)
(* float that is not a number is the value NaN, which compares false with    *)
(* everything and which every arithmetic operation hands on.                 *)
(* A uint32_t millisecond value is a pair <<high, low>> of 16-bit halves.    *)
(***************************************************************************)
EXTENDS Integers, Sequences, FiniteSets, TLC

VARIABLES
    cur,        \* struct Stats cur                       (main.cpp:44-51)
    serialBuf,  \* String serialBuf                       (main.cpp:270)
    histCPU,    \* float histCPU[HIST_N]                  (main.cpp:55)
    histGPU,    \* float histGPU[HIST_N]                  (main.cpp:56)
    histDISK,   \* float histDISK[HIST_N]                 (main.cpp:57)
    histIdx,    \* int histIdx                            (main.cpp:58)
    clock,      \* the value millis() returns (uint32_t)
    sid,        \* which byte stream the sender plays
    pos,        \* number of bytes of that stream already read by Serial.read()
    nParse,     \* history: number of calls of parseCSVLine so far
    ret,        \* history: what the last call of parseCSVLine returned
    handed,     \* history: the argument of the last call of parseCSVLine
    prevCur,    \* history: cur as it was when the last call of parseCSVLine began
    rawLine,    \* history: bytes read since the last '\n' (or since boot)
    rawDone,    \* history: raw bytes of the line the last '\n' ended
    nNewlines,  \* history: number of '\n' read so far
    gMode,      \* volatile Mode gMode                    (main.cpp:41)
    barTarget,  \* float barTarget                        (main.cpp:61)
    accLog,     \* history: <<cpu, gpu, diskPct>> of every accepted record, in order
    barValue,   \* float barValue                        (main.cpp:62)
    lastAnim,   \* uint32_t lastAnim                     (main.cpp:63)
    nextFrame,  \* static uint32_t nextFrame of loop()   (main.cpp:717)
    touchStartX,        \* int touchStartX               (main.cpp:27)
    touchActive,        \* bool touchActive              (main.cpp:28)
    touchStartTime,     \* uint32_t touchStartTime       (main.cpp:32)
    longPressTriggered, \* bool longPressTriggered       (main.cpp:33)
    setupMode,  \* static bool setupMode                 (config_portal.cpp:33)
    pc,         \* where control stands in loop()
    avail,      \* Serial.available(): bytes received and not yet read
    wr,         \* fields of cur the running parseCSVLine has assigned so far
    toStore,    \* the values the running parseCSVLine assigns (its local vals)
    reqPending, \* a GET /metrics waits for server.handleClient()
    nEvents,    \* history: inputs of the environment so far
    animFlip,   \* history: turns over at every call of animateBar
    lastDt,     \* history: dt of the last call of animateBar, in ms
    animFrom,   \* history: lastAnim as the last call of animateBar found it
    barBefore,  \* history: barValue as the last call of animateBar found it
    accIter,    \* history: records accepted in the running loop iteration
    nlIter,     \* history: '\n' read in the running loop iteration
    left,       \* history: Serial.available() when the serial loop was left last
    seen,       \* history: cur as the last reader (render, /metrics) read it
    seenBy,     \* history: that reader
    snaps,      \* history: cur after each accepted record
    modeLog,    \* history: gMode before each call of nextMode or prevMode
    opLog,      \* history: the calls of nextMode and prevMode, in order
    elapsed,    \* history: ms since nextFrame was last assigned (FRAME_MS: that or more)
    shown,      \* history: what the last render drew (<<>> before the first)
    data,       \* WeatherData data_ of the weather display  (weather_display.h:27-41)
    feed,       \* history: what the last call of getData received
    fret,       \* history: what the last call of fetchForecast returned
    nFetch,     \* history: number of calls of getData so far (2: two or more)
    state,      \* WeatherDisplayState state_           (weather_display.h:9-14)
    gret,       \* history: what the last call of getData returned
    timePased,  \* static unsigned long timePased      (weather_integration.cpp:11)
    lastDisplayUpdate,  \* static of weatherStep()      (weather_integration.cpp:87)
    pollFlip,   \* history: turns over at every call of doWeatherFetch
    sincePoll,  \* history: ms since timePased was last assigned (capped)
    ageSent,    \* history: "dataAgeMs" of the last answer to GET /metrics
    nSetup,     \* history: number of calls of enterSetupMode so far
    touchSeen,  \* history: the touch detail the last call of handleTouch read
    nvs,        \* the stored preferences: "configured" and "wifi_ssid"
    cachedSSID, \* static String cachedSSID             (config_portal.cpp:36)
    wifi,       \* WiFi.status() == WL_CONNECTED, as the next read finds it
    routes,     \* the routes of `server` are registered and it has begun
    weatherOn,  \* weatherInit() has run
    bootPc,     \* where control stands in setup()
    connStart,  \* uint32_t start of wifiConnect()          (main.cpp:598)
    outcome     \* history: how setup() went on behind configPortalCheck()

\* The globals of the bar, of the touch handler and of the portal.
barVars == <<barValue, lastAnim, nextFrame>>

touchVars == <<touchStartX, touchActive, touchStartTime, longPressTriggered, setupMode>>

\* Control and input of loop().
loopVars == <<pc, avail, wr, toStore, reqPending>>

\* History variables of the loop, of the bar and of the mode functions.
loopHist == <<nEvents, accIter, nlIter, left, seen, seenBy, snaps>>

animHist == <<animFlip, lastDt, animFrom, barBefore, shown>>

modeHist == <<modeLog, opLog>>

\* The weather data and the history of its fetches.
weatherVars == <<data, feed, fret, nFetch, state, gret, timePased,
                 lastDisplayUpdate, pollFlip, sincePoll>>

\* The answers, the gestures, and the state setup() works on.
setupVars == <<nvs, cachedSSID, wifi, routes, weatherOn, bootPc, connStart, outcome>>

sysVars == <<ageSent, nSetup, touchSeen, setupVars>>

vars == <<cur, serialBuf, histCPU, histGPU, histDISK, histIdx, clock, sid, pos,
          nParse, ret, handed, prevCur, rawLine, rawDone, nNewlines, accLog,
          gMode, barTarget, barVars, touchVars, loopVars, loopHist, animHist,
          modeHist, elapsed, weatherVars, sysVars>>

-----------------------------------------------------------------------------
(* Program constants *)

HIST_N == 60

VALS_N == 16

MIN_FIELDS == 9

SERIAL_BUF_CAP == 200

\* One unit of a float, in thousandths.
Milli(n) == n * 1000

\* The float that is not a number (a value no thousandth count takes).
NaN == 0 - 2^30

\* a < b on floats: false when either side is NaN.
FLess(a, b) == a # NaN /\ b # NaN /\ a < b

-----------------------------------------------------------------------------
(* uint32_t arithmetic of millis(), on <<high, low>> halves *)

Half == 65536

\* The uint32_t of a number below 2^31.
U32(n) == <<n \div Half, n % Half>>

\* a + d modulo 2^32, for a number d below 2^31.
U32Add(a, d) ==
    LET lo == a[2] + (d % Half)
        hi == a[1] + (d \div Half) + (lo \div Half)
    IN  <<hi % Half, lo % Half>>

\* a - b modulo 2^32.
U32Sub(a, b) ==
    LET lo == a[2] - b[2]
        hi == a[1] - b[1] - (IF lo < 0 THEN 1 ELSE 0)
    IN  <<(hi + 2 * Half) % Half, (lo + Half) % Half>>

\* a < b as unsigned numbers.
U32Less(a, b) == a[1] < b[1] \/ (a[1] = b[1] /\ a[2] < b[2])

\* a > n taken for true whatever a is.
U32AboveAlways(a, n) == TRUE

\* a > n for a number n below 2^16.
U32Above(a, n) == a[1] > 0 \/ a[2] > n

-----------------------------------------------------------------------------
(* Arduino String::toFloat is atof: optional white space, optional sign,     *)
(* then either digits, optional '.' and digits, or the word "nan" or "inf"   *)
(* in either case; the longest such prefix is converted and a text with      *)
(* neither converts to 0.0.                                                  *)

DigitChars == <<"0", "1", "2", "3", "4", "5", "6", "7", "8", "9">>

IsDigit(c) == c \in {DigitChars[i] : i \in 1..10}

DigitVal(c) == (CHOOSE i \in 1..10 : DigitChars[i] = c) - 1

\* The first index from i on whose character is not in `set` (Len(s) + 1 if none).
RunEnd(s, i, set) ==
    CHOOSE j \in i..(Len(s) + 1) :
        /\ j = Len(s) + 1 \/ s[j] \notin set
        /\ \A k \in i..(j - 1) : s[k] \in set

DigitSet == {DigitChars[i] : i \in 1..10}

\* Magnitudes of 10^6 and more are all represented by 10^6.
Huge == 10^6

\* The value of the digits s[a..b], at most six of them.
RECURSIVE DigitsValue(_, _, _)
DigitsValue(s, a, b) ==
    IF b < a THEN 0 ELSE DigitsValue(s, a, b - 1) * 10 + DigitVal(s[b])

\* The value of the run of digits s[a..b-1], leading zeros skipped.
IntPart(s, a, b) ==
    LET z == RunEnd(SubSeq(s, 1, b - 1), a, {"0"})
    IN  IF b - z > 6 THEN Huge ELSE DigitsValue(s, z, b - 1)

\* The conversion stopping at the point: no fraction.
FracMilliNone(s, i) == 0

\* The first three digits after the point, as thousandths.
FracMilli(s, i) ==
    LET d(k) == IF i + k <= Len(s) /\ IsDigit(s[i + k]) THEN DigitVal(s[i + k]) ELSE 0
        has(k) == \A j \in 0..k : i + j <= Len(s) /\ IsDigit(s[i + j])
    IN  (IF has(0) THEN 100 * d(0) ELSE 0)
      + (IF has(1) THEN 10 * d(1) ELSE 0)
      + (IF has(2) THEN d(2) ELSE 0)

\* The three letters w, in either case, stand at s[i..i+2].
WordAt(s, i, w) ==
    /\ i + 2 <= Len(s)
    /\ \A k \in 1..3 : s[i + k - 1] \in w[k]

NanWord == <<{"n", "N"}, {"a", "A"}, {"n", "N"}>>

InfWord == <<{"i", "I"}, {"n", "N"}, {"f", "F"}>>

toFloat(s) ==
    LET i0   == RunEnd(s, 1, {" ", "\t", "\n", "\r", "\f"})
        neg  == i0 <= Len(s) /\ s[i0] = "-"
        i1   == IF i0 <= Len(s) /\ s[i0] \in {"-", "+"} THEN i0 + 1 ELSE i0
        i2   == RunEnd(s, i1, DigitSet)
        dot  == i2 <= Len(s) /\ s[i2] = "."
        i3   == IF dot THEN RunEnd(s, i2 + 1, DigitSet) ELSE i2
        int  == IntPart(s, i1, i2)
        mag  == IF int >= Huge THEN Milli(Huge)
                ELSE Milli(int) + (IF dot THEN FracMilli(s, i2 + 1) ELSE 0)
    IN  IF WordAt(s, i1, NanWord) THEN NaN
        ELSE IF WordAt(s, i1, InfWord) THEN (IF neg THEN 0 - Milli(Huge) ELSE Milli(Huge))
        ELSE IF (i2 - i1) + (i3 - i2) = 0 \/ (dot /\ i3 - i1 = 1) THEN 0
        ELSE IF neg THEN 0 - mag ELSE mag

-----------------------------------------------------------------------------
(* struct Stats and its initial value *)

StatsBoot ==
    [cpu |-> 0, mem |-> 0, gpu |-> 0, diskPct |-> 0, diskMBps |-> 0,
     cpuTempF |-> Milli(0 - 999), gpuTempF |-> Milli(0 - 999),
     freeC |-> Milli(0 - 1), freeD |-> Milli(0 - 1),
     indoorTempF |-> Milli(0 - 999), lastUpdateMs |-> U32(0)]

\* float vals[16] = {0}, indexed 0..15
ValsZero == [k \in 0..(VALS_N - 1) |-> 0]

\* The scanning step storing field idx in vals[idx % 16], without the test idx < 16.
ScanStepWrap(line, i, st) ==
    IF i = Len(line) \/ line[i + 1] = ","
    THEN [idx   |-> st.idx + 1,
          start |-> i + 1,
          vals  |-> [st.vals EXCEPT ![st.idx % 16] = toFloat(SubSeq(line, st.start + 1, i))]]
    ELSE st

(* One iteration of the scanning loop of parseCSVLine, for index i in        *)
(* 0..line.length(): at a comma or at the end the text since `start` is      *)
(* converted into vals[idx] when idx < 16, and idx counts the field either   *)
(* way.                                                                      *)
ScanStep(line, i, st) ==
    IF i = Len(line) \/ line[i + 1] = ","
    THEN [idx   |-> st.idx + 1,
          start |-> i + 1,
          vals  |-> IF st.idx < VALS_N
                    THEN [st.vals EXCEPT ![st.idx] = toFloat(SubSeq(line, st.start + 1, i))]
                    ELSE st.vals]
    ELSE st

(* The iterations i = lo..hi of the loop, in order. The range is run by      *)
(* halves, the first half being computed (its idx read) before the second is *)
(* started, which keeps the evaluation shallow on a 200-character line.      *)
RECURSIVE ScanRange(_, _, _, _)
ScanRange(line, lo, hi, st) ==
    IF lo > hi THEN st
    ELSE IF lo = hi THEN ScanStep(line, lo, st)
    ELSE LET mid   == (lo + hi) \div 2
             first == ScanRange(line, lo, mid, st)
         IN  IF first.idx >= 0 THEN ScanRange(line, mid + 1, hi, first) ELSE first

\* for (int i = 0; i <= line.length(); ++i) from idx = 0, start = 0, vals = {0}.
ScanFields(line) ==
    ScanRange(line, 0, Len(line), [idx |-> 0, start |-> 0, vals |-> ValsZero])

\* StoreVals with the default of indoorTempF lost: the old value is kept.
StoreValsKeepIndoor(c, vals, idx, now) ==
    [cpu |-> vals[0], mem |-> vals[1], gpu |-> vals[2],
     diskPct |-> vals[3], diskMBps |-> vals[4],
     cpuTempF |-> vals[5], gpuTempF |-> vals[6],
     freeC |-> vals[7], freeD |-> vals[8],
     indoorTempF |-> IF idx >= 10 THEN vals[9] ELSE c.indoorTempF,
     lastUpdateMs |-> now]

\* The assignments to cur of an accepted line.
StoreVals(c, vals, idx, now) ==
    [cpu |-> vals[0], mem |-> vals[1], gpu |-> vals[2],
     diskPct |-> vals[3], diskMBps |-> vals[4],
     cpuTempF |-> vals[5], gpuTempF |-> vals[6],
     freeC |-> vals[7], freeD |-> vals[8],
     indoorTempF |-> IF idx >= 10 THEN vals[9] ELSE vals[5],
     lastUpdateMs |-> now]

\* parseCSVLine with the time stamp written before the field count is tested.
parseCSVLineStampFirst(line, c, now) ==
    LET r == ScanFields(line)
    IN  IF r.idx < MIN_FIELDS
        THEN [ok |-> FALSE, cur |-> [c EXCEPT !.lastUpdateMs = now]]
        ELSE [ok |-> TRUE, cur |-> StoreVals(c, r.vals, r.idx, now)]

\* bool parseCSVLine(const String &line): the value returned and cur afterwards.
parseCSVLine(line, c, now) ==
    LET r == ScanFields(line)
    IN  IF r.idx < MIN_FIELDS
        THEN [ok |-> FALSE, cur |-> c]
        ELSE [ok |-> TRUE, cur |-> StoreVals(c, r.vals, r.idx, now)]

-----------------------------------------------------------------------------
(* The body of `while (Serial.available())` in loop(), one byte per step *)

MODE_CPU == 0

MODE_GPU == 1

MODE_DISK == 2

MODE_WEATHER == 3

\* void setBarTargetFromMode(): the new barTarget.
setBarTargetFromMode(mode, c) ==
    LET t == IF mode = MODE_CPU THEN c.cpu
             ELSE IF mode = MODE_GPU THEN c.gpu
             ELSE IF mode = MODE_DISK THEN c.diskPct
             ELSE 0
    IN  IF FLess(t, 0) THEN 0 ELSE IF FLess(Milli(100), t) THEN Milli(100) ELSE t

\* setBarTargetFromMode writing the displayed value too: the bar jumps.
BarValueJumps(bv, bt) == bt

\* setBarTargetFromMode assigns barTarget only: barValue after it.
BarValueAfterTarget(bv, bt) == bv

-----------------------------------------------------------------------------
(* Mode navigation *)

\* The cycle one mode short.
nextModeOfThree(g) == (g + 1) % 3

\* void nextMode(): the new gMode.
nextMode(g) == (g + 1) % 4

\* The step back computed as gMode - 1.
prevModeMinusOne(g) == g - 1

\* void prevMode(): the new gMode.
prevMode(g) == (g + 3) % 4

-----------------------------------------------------------------------------
(* Bar animation: barValue += (barTarget - barValue) * (1 - expf(-7 * dt)) *)

DT_CAP_MS == 50

SPEED == 7

FRAME_MS == 33

\* ms since nextFrame was assigned, d ms later; FRAME_MS stands for that or more.
Later(e, d) == IF e + d > FRAME_MS THEN FRAME_MS ELSE e + d

\* The clamp set at 60 ms.
AnimDtCap60(now, last) ==
    LET d == U32Sub(now, last)
    IN  IF U32Above(d, 60) THEN 60 ELSE d[2]

(* dt of animateBar, in milliseconds: the uint32_t difference now - lastAnim  *)
(* divided by 1000.0f is never negative, and what exceeds 0.05f becomes 0.05f.*)
AnimDt(now, last) ==
    LET d == U32Sub(now, last)
    IN  IF U32Above(d, DT_CAP_MS) THEN DT_CAP_MS ELSE d[2]

\* x^n / n! in millionths, for x = xm / 1000.
RECURSIVE ExpTerm(_, _)
ExpTerm(xm, n) ==
    IF n = 0 THEN 10^6 ELSE (ExpTerm(xm, n - 1) * xm) \div (1000 * n)

\* expf(-x) in millionths, for x = xm / 1000 up to 0.5: the series to x^8.
ExpNeg(xm) ==
    ExpTerm(xm, 0) - ExpTerm(xm, 1) + ExpTerm(xm, 2) - ExpTerm(xm, 3)
      + ExpTerm(xm, 4) - ExpTerm(xm, 5) + ExpTerm(xm, 6) - ExpTerm(xm, 7)
      + ExpTerm(xm, 8)

\* The easing at speed 3.
EaseFactorSlow(ms) == 10^6 - ExpNeg(3 * ms)

\* 1.0f - expf(-speed * dt) in millionths, dt in milliseconds.
EaseFactor(ms) == 10^6 - ExpNeg(SPEED * ms)

\* d * f for d in thousandths and f in millionths, rounded to a thousandth.
MulPpm(d, f) ==
    LET a == IF d < 0 THEN 0 - d ELSE d
        m == ((a \div 1000) * f + ((a % 1000) * f) \div 1000 + 500) \div 1000
    IN  IF d < 0 THEN 0 - m ELSE m

\* void animateBar(): barValue and lastAnim afterwards, and the dt it used.
animateBar(bv, bt, last, now) ==
    LET ms == AnimDt(now, last)
    IN  [barValue |-> IF bv = NaN \/ bt = NaN THEN NaN
                      ELSE bv + MulPpm(bt - bv, EaseFactor(ms)),
         lastAnim |-> now,
         dt       |-> ms]

-----------------------------------------------------------------------------
(* The serial line accumulator *)

\* The trim left out: the buffer only grows.
TrimNothing(buf) == buf

\* The trim cutting the wrong end: the first 200 characters are kept.
TrimKeepHead(buf) ==
    IF Len(buf) > 200 THEN SubSeq(buf, 1, 200) ELSE buf

\* if (serialBuf.length() > 200) serialBuf.remove(0, serialBuf.length() - 200);
TrimFront(buf) ==
    IF Len(buf) > SERIAL_BUF_CAP
    THEN SubSeq(buf, Len(buf) - SERIAL_BUF_CAP + 1, Len(buf))
    ELSE buf

\* serialBuf += c; followed by the trim.
AppendByte(buf, c) == TrimFront(Append(buf, c))

\* The buffer not cleared after a line.
ClearedBufKept(buf) == buf

\* serialBuf = ""; after the line was handed to the parser.
ClearedBuf(buf) == <<>>

\* The sample written after the cursor moved instead of before.
WriteSampleAhead(hist, idx, value) == [hist EXCEPT ![(idx + 1) % 60] = value]

\* hist[histIdx] = value;
WriteSample(hist, idx, value) == [hist EXCEPT ![idx] = value]

\* The cursor wrapping one slot early.
NextIdxShortWrap(idx) == (idx + 1) % 59

\* The cursor advancing twice.
NextIdxTwice(idx) == (idx + 2) % 60

\* histIdx = (histIdx + 1) % HIST_N;
NextIdx(idx) == (idx + 1) % HIST_N

\* The ring read from slot 0 instead of from the cursor.
HistSeqFromZero(hist, idx) == [i \in 1..60 |-> hist[i - 1]]

\* The order drawSparkline reads a ring in: hist[(histIdx + i) % HIST_N], i = 0..59.
HistSeq(hist, idx) == [i \in 1..HIST_N |-> hist[(idx + i - 1) % HIST_N]]

HistZero == [k \in 0..(HIST_N - 1) |-> 0]

\* drawSparkline moving the cursor as it reads.
IdxAfterDrawMoved(idx) == (idx + 1) % 60

\* histIdx after drawSparkline: it is read, never assigned.
IdxAfterDraw(idx) == idx

\* The samples drawSparkline draws, left to right.
drawSparkline(hist, idx) == HistSeq(hist, idx)

(* void render() in a PC-stats mode: drawBar draws the ring of the mode. The *)
(* value is what was drawn, with the mode and the number n of records        *)
(* accepted by then.                                                         *)
render(mode, hc, hg, hd, idx, n) ==
    [mode |-> mode,
     n    |-> n,
     line |-> drawSparkline(IF mode = 0 THEN hc ELSE IF mode = 1 THEN hg ELSE hd, idx)]

\* Before the first render.
NoRender == [mode |-> 0 - 1, n |-> 0, line |-> <<>>]

-----------------------------------------------------------------------------
(* The sender: the byte streams the feeder may put on the serial line *)

\* Number of records of a ramp stream.
NRecords == 62

\* Extra length of the longest unterminated run beyond 250 bytes.
OverExtra == 3

\* Highest number of fields of a line given to the parser alone.
MaxFields == 18

RECURSIVE Dec(_)
Dec(n) ==
    IF n < 10 THEN <<DigitChars[n + 1]>>
    ELSE Dec(n \div 10) \o <<DigitChars[(n % 10) + 1]>>

RECURSIVE Join(_)
Join(fields) ==
    IF Len(fields) = 0 THEN <<>>
    ELSE IF Len(fields) = 1 THEN fields[1]
    ELSE fields[1] \o <<",">> \o Join(Tail(fields))

RECURSIVE Concat(_)
Concat(parts) ==
    IF Len(parts) = 0 THEN <<>> ELSE parts[1] \o Concat(Tail(parts))

EOL(cr) == IF cr THEN <<"\r", "\n">> ELSE <<"\n">>

(* Record k of a ramp: the tracked metric (1 cpu, 2 gpu, 3 diskPct) carries  *)
(* k, the two others k + 100 and k + 200, written as                         *)
(* cpu,mem,gpu,diskPct,diskMBps,cpuTempF,gpuTempF,freeC,freeD[,indoorTempF]  *)
RampRec(k, tracked, ten) ==
    LET v(m) == Dec(IF m = tracked THEN k ELSE k + 100 * ((m - tracked) % 3))
        nine == <<v(1), <<"5">>, v(2), v(3), <<"1", ".", "5">>,
                  <<"7", "0">>, <<"8", "0">>, <<"9">>, <<"3">>>>
    IN  Join(IF ten THEN Append(nine, <<"6", "8">>) ELSE nine)

\* Lines the parser rejects, sent between the records of a noisy ramp.
Junk(k) ==
    IF k % 7 = 0 THEN <<"1", "0", ",", "2", "0", ",", "3", "0", "\n">>
    ELSE IF k % 7 = 3 THEN <<"\n">>
    ELSE <<>>

RampStream(tracked, noisy) ==
    Concat([k \in 1..NRecords |->
              RampRec(k, tracked, noisy) \o EOL(noisy)
              \o (IF noisy THEN Junk(k) ELSE <<>>)])

\* An unterminated run of n bytes, none of them '\n'.
OverRun(kind, n) ==
    [i \in 1..n |->
        IF kind = "hash" THEN "#"
        ELSE IF kind = "digits" THEN DigitChars[((i + i \div 7) % 10) + 1]
        ELSE IF kind = "fields" THEN (IF i % 4 = 0 THEN "," ELSE DigitChars[(i % 10) + 1])
        ELSE (IF i % 64 = 0 THEN "\r" ELSE DigitChars[(i % 10) + 1])]

Prefixes ==
    <<<<>>,
      <<"3", ",", "4", ",", "5", "\n">>,
      <<"\r", "\n">>,
      OverRun("hash", SERIAL_BUF_CAP) \o <<"\n">>,
      OverRun("hash", SERIAL_BUF_CAP + 1) \o <<"\n">>,
      OverRun("hash", 250) \o <<"\n">>,
      OverRun("hash", 250 + OverExtra) \o <<"\n">>,
      OverRun("digits", 250) \o <<"\n">>,
      OverRun("fields", 250) \o <<"\n">>,
      OverRun("cr", 250) \o <<"\n">>,
      OverRun("fields", SERIAL_BUF_CAP + 1) \o <<"\n">>>>

Rec9 ==
    <<"4", "5", ",", "6", "0", ",", "3", "0", ",", "5", "0", ",",
      "1", "2", ".", "5", ",", "7", "0", ",", "8", "0", ",",
      "1", "0", "0", ",", "2", "0", "0">>

Rec10 == Rec9 \o <<",", "6", "8">>

RecShort == <<"1", "0", ",", "2", "0", ",", "3", "0">>

\* A record of exactly n characters: Rec10 behind leading zeros.
RecPadded(n) == [i \in 1..(n - Len(Rec10)) |-> "0"] \o Rec10

\* A record with a '\r' inside a field.
RecInnerCR == <<"1", "\r", "2", ",">> \o Rec9

Records ==
    <<Rec9, Rec10, RecShort, RecInnerCR,
      RecPadded(SERIAL_BUF_CAP), <<"1">> \o RecPadded(SERIAL_BUF_CAP)>>

LastRec ==
    <<"1", ",", "2", ",", "3", ",", "4", ",", "5", ",", "6", ",",
      "7", ",", "8", ",", "9", "\n">>

\* prefix p, then record r ended by "\n" or "\r\n", then a last record.
MessStream(p, r, cr) == Prefixes[p] \o Records[r] \o EOL(cr) \o LastRec

NMess == Len(Prefixes) * Len(Records) * 2

\* Every stream of the model, indexed by sid: the mess streams, then six ramps.
StreamAt(n) ==
    IF n <= NMess
    THEN MessStream(((n - 1) % Len(Prefixes)) + 1,
                    (((n - 1) \div Len(Prefixes)) % Len(Records)) + 1,
                    (n - 1) \div (Len(Prefixes) * Len(Records)) = 1)
    ELSE RampStream(((n - NMess - 1) % 3) + 1, (n - NMess - 1) \div 3 = 1)

Streams == [n \in 1..(NMess + 6) |-> StreamAt(n)]

-----------------------------------------------------------------------------
(* The weather collaborator: WeatherAPI::getData and fetchForecast           *)
(* (weather_api.cpp). Of WeatherData the model keeps lastUpdateEpoch,        *)
(* timezoneOffset and, of each of the three forecast slots, valid and        *)
(* timestamp. A JSON member is the set of its value, empty when it is absent.*)

kSecondsPerDay == 86400

kMiddaySeconds == 12 * 3600

\* member | default of ArduinoJson.
JsonOr(member, default) ==
    IF member = {} THEN default ELSE CHOOSE v \in member : TRUE

(* (ts + tz) / kSecondsPerDay with the sum taken as uint32_t: a sum below 0  *)
(* wraps to 2^32 + sum, and 2^32 is 49710 days and 23296 seconds.            *)
LocalDay(ts, tz) ==
    IF ts + tz >= 0 THEN (ts + tz) \div kSecondsPerDay
    ELSE 49710 + ((23296 + ts + tz) \div kSecondsPerDay)

\* (ts + tz) % kSecondsPerDay, the sum taken as uint32_t.
LocalSeconds(ts, tz) ==
    IF ts + tz >= 0 THEN (ts + tz) % kSecondsPerDay
    ELSE (23296 + ts + tz) % kSecondsPerDay

\* Days behind the third put into the third slot.
SlotOfClamped(localDay, baseDay) ==
    LET idx == localDay - baseDay
    IN  IF idx < 0 THEN 0 - 1 ELSE IF idx >= 3 THEN 2 ELSE idx

\* idx = localDay - baseDay, or -1 where the loop goes on to the next entry.
SlotOf(localDay, baseDay) ==
    LET idx == localDay - baseDay
    IN  IF idx < 0 \/ idx >= 3 THEN 0 - 1 ELSE idx

\* ForecastBucket as constructed; bestDelta stands above every delta.
BucketNew == [used |-> FALSE, representativeTs |-> 0, bestDelta |-> kSecondsPerDay]

\* The body of the loop over the entries, for an entry with "dt" = ts.
PutEntry(buckets, ts, tz, baseDay) ==
    LET idx   == SlotOf(LocalDay(ts, tz), baseDay)
        sec   == LocalSeconds(ts, tz)
        delta == IF sec > kMiddaySeconds THEN sec - kMiddaySeconds
                 ELSE kMiddaySeconds - sec
    IN  IF ts = 0 \/ idx < 0 THEN buckets
        ELSE [buckets EXCEPT ![idx] =
                 IF delta < buckets[idx].bestDelta
                 THEN [used |-> TRUE, representativeTs |-> ts, bestDelta |-> delta]
                 ELSE [buckets[idx] EXCEPT !.used = TRUE]]

\* for (JsonObject entry : entries), from entry k on.
RECURSIVE PutEntries(_, _, _, _, _)
PutEntries(buckets, list, k, tz, baseDay) ==
    IF k > Len(list) THEN buckets
    ELSE PutEntries(PutEntry(buckets, list[k], tz, baseDay), list, k + 1, tz, baseDay)

\* WeatherForecast as resetForecast leaves it.
SlotReset == [valid |-> FALSE, timestamp |-> 0]

ForecastReset == [i \in 0..2 |-> SlotReset]

\* WeatherData as constructed.
DataBoot == [lastUpdateEpoch |-> 0, timezoneOffset |-> 0, forecast |-> ForecastReset]

(* bool WeatherAPI::fetchForecast(WeatherData &data) on the forecast answer  *)
(* f: whether it came and parsed, its "list" of "dt" values (0: none), its   *)
(* "city"."timezone". Gives data afterwards, the value returned, baseDay.    *)
fetchForecast(d, f) ==
    IF ~f.fok \/ Len(f.list) = 0
    THEN [data |-> d, ret |-> FALSE, baseDay |-> 0]
    ELSE LET tz      == JsonOr(f.cityTz, d.timezoneOffset)
             day0    == LocalDay(d.lastUpdateEpoch, tz)
             baseDay == IF day0 <= 0 THEN LocalDay(f.list[1], tz) ELSE day0
             buckets == PutEntries([i \in 0..2 |-> BucketNew], f.list, 1, tz, baseDay)
             out(i)  == IF buckets[i].used
                        THEN [valid |-> TRUE, timestamp |-> buckets[i].representativeTs]
                        ELSE [d.forecast[i] EXCEPT !.valid = FALSE]
         IN  [data    |-> [d EXCEPT !.timezoneOffset = tz,
                                    !.forecast = [i \in 0..2 |-> out(i)]],
              ret     |-> \E i \in 0..2 : buckets[i].used,
              baseDay |-> baseDay]

\* What fetchForecast is not called with.
NotFetched == [called |-> FALSE, ret |-> FALSE, baseDay |-> 0]

\* The slots left as an earlier fetch filled them.
resetForecastNot(d) == d

\* void resetForecast(WeatherData &data)
resetForecast(d) == [d EXCEPT !.forecast = ForecastReset]

\* WeatherDisplayState as constructed.
StateBoot == [isConnected |-> FALSE, updateCounter |-> 0, lastFetchOk |-> FALSE]

\* getData with the slots reset before the current weather is asked for.
getDataResetFirst(d, st, f, w) ==
    IF ~f.ok
    THEN [data |-> resetForecast(d), state |-> [st EXCEPT !.lastFetchOk = FALSE],
          ret |-> FALSE, fret |-> NotFetched]
    ELSE LET d1 == [d EXCEPT !.lastUpdateEpoch = JsonOr(f.dt, 0),
                             !.timezoneOffset = JsonOr(f.tz, d.timezoneOffset)]
             r  == fetchForecast(resetForecast(d1), f)
         IN  [data  |-> r.data,
              state |-> [st EXCEPT !.lastFetchOk = TRUE, !.isConnected = w],
              ret   |-> TRUE,
              fret  |-> [called |-> TRUE, ret |-> r.ret, baseDay |-> r.baseDay]]

(* bool WeatherAPI::getData(data, state) on the answers f: whether the       *)
(* current weather came (the connection opened, the status was 200, the JSON *)
(* parsed), its "dt" and "timezone", and the forecast answer; w is what      *)
(* WiFi.status() == WL_CONNECTED gives. Gives data and state afterwards, the *)
(* value returned, and what fetchForecast did.                               *)
getData(d, st, f, w) ==
    IF ~f.ok
    THEN [data |-> d, state |-> [st EXCEPT !.lastFetchOk = FALSE],
          ret |-> FALSE, fret |-> NotFetched]
    ELSE LET d1 == [d EXCEPT !.lastUpdateEpoch = JsonOr(f.dt, 0),
                             !.timezoneOffset = JsonOr(f.tz, d.timezoneOffset)]
             r  == fetchForecast(resetForecast(d1), f)
         IN  [data  |-> r.data,
              state |-> [st EXCEPT !.lastFetchOk = TRUE, !.isConnected = w],
              ret   |-> TRUE,
              fret  |-> [called |-> TRUE, ret |-> r.ret, baseDay |-> r.baseDay]]

\* Before the first call of getData.
NoFeed == [ok |-> FALSE, dt |-> {}, tz |-> {}, fok |-> FALSE, list |-> <<>>, cityTz |-> {}]

\* 2025-11-03 00:00:00 UTC, in seconds since 1970.
Midnight == 20395 * kSecondsPerDay

Hours(h) == h * 3600

\* A full answer of the day before.
EarlierFeed ==
    [ok |-> TRUE, dt |-> {Midnight - Hours(14)}, tz |-> {0 - 18000}, fok |-> TRUE,
     list |-> <<Midnight - Hours(1), Midnight + Hours(15),
                Midnight + kSecondsPerDay + Hours(3)>>,
     cityTz |-> {}]

\* What the weather service gives a periodic fetch: nothing, or a full answer.
PollFeeds == {NoFeed, EarlierFeed}

-----------------------------------------------------------------------------
(* Initial state: the globals as their initialisers leave them *)

InitGlobals ==
    /\ serialBuf = <<>>
    /\ histCPU = HistZero
    /\ histGPU = HistZero
    /\ histDISK = HistZero
    /\ histIdx = 0
    /\ gMode = MODE_CPU
    /\ barTarget = 0
    /\ barValue = 0
    /\ touchStartX = 0 - 1
    /\ touchActive = FALSE
    /\ touchStartTime = U32(0)
    /\ longPressTriggered = FALSE
    /\ setupMode = FALSE
    /\ wr = 0
    /\ toStore = StatsBoot
    /\ reqPending = FALSE
    /\ data = DataBoot

InitHistory ==
    /\ nParse = 0
    /\ ret = FALSE
    /\ handed = <<>>
    /\ prevCur = StatsBoot
    /\ rawLine = <<>>
    /\ rawDone = <<>>
    /\ nNewlines = 0
    /\ accLog = <<>>
    /\ nEvents = 0
    /\ animFlip = FALSE
    /\ lastDt = 0
    /\ animFrom = U32(0)
    /\ barBefore = 0
    /\ accIter = 0
    /\ nlIter = 0
    /\ left = 0
    /\ seen = StatsBoot
    /\ seenBy = "none"
    /\ snaps = {}
    /\ modeLog = <<>>
    /\ opLog = <<>>
    /\ elapsed = FRAME_MS
    /\ shown = NoRender
    /\ feed = NoFeed
    /\ fret = NotFetched
    /\ nFetch = 0

UPDATE_INTERVAL_MS == 180000

SYNC_INTERVAL_UPDATES == 10

\* Ms gone by, counted up to "more than UPDATE_INTERVAL_MS".
PollLater(e, d) ==
    IF e + d > UPDATE_INTERVAL_MS THEN UPDATE_INTERVAL_MS + 1 ELSE e + d

\* The number a uint32_t below 2^31 stands for.
ToInt(a) == a[1] * Half + a[2]

(* timePased on a device that runs: millis() at the end of weatherInit(), and *)
(* on a device up for 49 days the time of a fetch 180 s before the 20th ms   *)
(* before millis() wraps.                                                    *)
LastPoll(c) ==
    IF c[1] = Half - 1 THEN U32Sub(<<Half - 1, Half - 20>>, U32(UPDATE_INTERVAL_MS))
    ELSE c

\* No finger on the screen.
NoTouch == [pressed |-> FALSE, released |-> FALSE, x |-> 0]

\* No answer to GET /metrics yet.
NoAnswer == [sent |-> FALSE, neg |-> FALSE, mag |-> U32(0)]

(* The state setup() leaves on a configured device whose WiFi connected: the *)
(* routes registered, weatherInit() run with its first fetch failed, the     *)
(* timer of the periodic fetch started at tp.                                *)
InitRunning(tp) ==
    /\ state = [StateBoot EXCEPT !.isConnected = TRUE]
    /\ gret = FALSE
    /\ timePased = tp
    /\ lastDisplayUpdate = U32(0)
    /\ pollFlip = FALSE
    /\ sincePoll = ToInt(U32Sub(clock, tp))
    /\ ageSent = NoAnswer
    /\ nSetup = 0
    /\ touchSeen = NoTouch
    /\ nvs = [configured |-> TRUE, ssid |-> "home"]
    /\ cachedSSID = "home"
    /\ wifi = TRUE
    /\ routes = TRUE
    /\ weatherOn = TRUE
    /\ bootPc = "done"
    /\ connStart = U32(500)
    /\ outcome = "connected"

\* What the serial loop alone leaves as it is.
aside == <<lastAnim, nextFrame, touchVars, loopVars, loopHist, animHist, modeHist,
           elapsed, weatherVars, sysVars>>

InitIngest ==
    /\ InitGlobals
    /\ cur = StatsBoot
    /\ InitHistory
    /\ clock = U32(1234)
    /\ lastAnim = U32(0)
    /\ nextFrame = U32(0)
    /\ pc = "serial"
    /\ avail = 0
    /\ sid \in 1..Len(Streams)
    /\ pos = 0
    /\ InitRunning(LastPoll(clock))

\* char c = (char)Serial.read();
NextByte == Streams[sid][pos + 1]

\* The samples stored in the modes that draw them only.
StoreSampleUnlessWeather(c) ==
    /\ IF gMode = MODE_WEATHER
       THEN UNCHANGED <<histCPU, histGPU, histDISK, histIdx>>
       ELSE /\ histCPU' = WriteSample(histCPU, histIdx, c.cpu)
            /\ histGPU' = WriteSample(histGPU, histIdx, c.gpu)
            /\ histDISK' = WriteSample(histDISK, histIdx, c.diskPct)
            /\ histIdx' = NextIdx(histIdx)
    /\ barTarget' = setBarTargetFromMode(gMode, c)
    /\ barValue' = BarValueAfterTarget(barValue, barTarget')
    /\ accLog' = Append(accLog, <<c.cpu, c.gpu, c.diskPct>>)

\* What loop() does with a record once parseCSVLine has accepted it into c.
StoreSample(c) ==
    /\ histCPU' = WriteSample(histCPU, histIdx, c.cpu)
    /\ histGPU' = WriteSample(histGPU, histIdx, c.gpu)
    /\ histDISK' = WriteSample(histDISK, histIdx, c.diskPct)
    /\ histIdx' = NextIdx(histIdx)
    /\ barTarget' = setBarTargetFromMode(gMode, c)
    /\ barValue' = BarValueAfterTarget(barValue, barTarget')
    /\ accLog' = Append(accLog, <<c.cpu, c.gpu, c.diskPct>>)

\* The branch c == '\n' calling the parser for a line that is not empty only.
LineEndSkipEmpty(line) ==
    IF line = <<>>
    THEN UNCHANGED <<cur, histCPU, histGPU, histDISK, histIdx, barTarget, barValue,
                     accLog, ret, handed, prevCur, nParse, serialBuf>>
    ELSE /\ LET r == parseCSVLine(line, cur, clock)
            IN  /\ cur' = r.cur
                /\ IF r.ok
                   THEN StoreSample(r.cur)
                   ELSE UNCHANGED <<histCPU, histGPU, histDISK, histIdx, barTarget,
                                    barValue, accLog>>
                /\ ret' = r.ok
         /\ handed' = line
         /\ prevCur' = cur
         /\ nParse' = nParse + 1
         /\ serialBuf' = <<>>

\* The branch c == '\n' of loop() with `line` in serialBuf.
LineEnd(line) ==
    /\ LET r == parseCSVLine(line, cur, clock)
       IN  /\ cur' = r.cur
           /\ IF r.ok
              THEN StoreSample(r.cur)
              ELSE UNCHANGED <<histCPU, histGPU, histDISK, histIdx, barTarget,
                               barValue, accLog>>
           /\ ret' = r.ok
    /\ handed' = line
    /\ prevCur' = cur
    /\ nParse' = nParse + 1
    /\ serialBuf' = ClearedBuf(serialBuf)

\* c == '\n': the line goes to the parser, an accepted record is recorded.
SerialNewline ==
    /\ pos < Len(Streams[sid])
    /\ NextByte = "\n"
    /\ LineEnd(serialBuf)
    /\ rawDone' = rawLine
    /\ rawLine' = <<>>
    /\ nNewlines' = nNewlines + 1
    /\ pos' = pos + 1
    /\ UNCHANGED <<clock, sid, gMode, aside>>

\* The '\r' taken into the buffer like any other byte.
SerialCRKept ==
    /\ pos < Len(Streams[sid])
    /\ NextByte = "\r"
    /\ serialBuf' = AppendByte(serialBuf, NextByte)
    /\ rawLine' = Append(rawLine, NextByte)
    /\ pos' = pos + 1
    /\ UNCHANGED <<cur, histCPU, histGPU, histDISK, histIdx, clock, sid,
                   nParse, ret, handed, prevCur, rawDone, nNewlines, accLog,
                   gMode, barTarget, barValue, aside>>

\* c == '\r': ignored.
SerialCR ==
    /\ pos < Len(Streams[sid])
    /\ NextByte = "\r"
    /\ rawLine' = Append(rawLine, NextByte)
    /\ pos' = pos + 1
    /\ UNCHANGED <<cur, serialBuf, histCPU, histGPU, histDISK, histIdx, clock, sid,
                   nParse, ret, handed, prevCur, rawDone, nNewlines, accLog,
                   gMode, barTarget, barValue, aside>>

\* any other byte: appended, the buffer trimmed to its cap.
SerialChar ==
    /\ pos < Len(Streams[sid])
    /\ NextByte \notin {"\n", "\r"}
    /\ serialBuf' = AppendByte(serialBuf, NextByte)
    /\ rawLine' = Append(rawLine, NextByte)
    /\ pos' = pos + 1
    /\ UNCHANGED <<cur, histCPU, histGPU, histDISK, histIdx, clock, sid,
                   nParse, ret, handed, prevCur, rawDone, nNewlines, accLog,
                   gMode, barTarget, barValue, aside>>

NextIngest == SerialNewline \/ SerialCR \/ SerialChar

SpecIngest == InitIngest /\ [][NextIngest]_vars

-----------------------------------------------------------------------------
(* parseCSVLine alone: one call on a line of 1..MaxFields fields *)

\* Field texts that are empty, no numeral, fractional, negative, padded, "nan".
Tokens ==
    {<<>>, <<"#">>, <<"1", "2", ".", "5">>, <<"-", "3">>, <<" ", "4">>, <<"7", "#">>,
     <<"n", "a", "n">>}

\* A line of n fields: field k reads 10 + k, except field p, which reads tok.
ParseLine(n, p, tok) ==
    Join([k \in 1..n |-> IF k = p THEN tok ELSE Dec(10 + k)])

ParseLines ==
    UNION {{ParseLine(n, p, tok) : p \in 0..n, tok \in Tokens} : n \in 1..MaxFields}

\* Values cur may hold when the parser is called: the initial one, one left by a record.
StatsSamples == {StatsBoot, parseCSVLine(Rec10, StatsBoot, U32(77)).cur}

\* Values of millis(): at boot, early, after a day, the last before the wrap.
ClockSamples == {U32(0), U32(1234), U32(86400 * 1000), <<Half - 1, Half - 1>>}

InitParse ==
    /\ InitGlobals
    /\ InitHistory
    /\ cur \in StatsSamples
    /\ clock \in ClockSamples
    /\ lastAnim = U32(0)
    /\ nextFrame = U32(0)
    /\ pc = "serial"
    /\ avail = 0
    /\ sid = 1
    /\ pos = 0
    /\ InitRunning(LastPoll(clock))

ParseCall ==
    \E line \in ParseLines :
        /\ nParse = 0
        /\ LET r == parseCSVLine(line, cur, clock)
           IN  /\ cur' = r.cur
               /\ ret' = r.ok
        /\ handed' = line
        /\ prevCur' = cur
        /\ nParse' = nParse + 1
        /\ UNCHANGED <<serialBuf, histCPU, histGPU, histDISK, histIdx, clock, sid, pos,
                       rawLine, rawDone, nNewlines, accLog, gMode, barTarget,
                       barValue, aside>>

NextParse == ParseCall

SpecParse == InitParse /\ [][NextParse]_vars

-----------------------------------------------------------------------------
(* loop(): one iteration is the portal check, server.handleClient(),         *)
(* handleTouch(), the serial loop, then the drawing of the mode.             *)
(* pc is "top" before the iteration, then "touch", "serial" ("store" while   *)
(* parseCSVLine assigns the fields of cur), and "draw".                      *)

\* Highest number of inputs (bytes arriving, touches, time passing, requests).
MaxEvents == 4

LONG_PRESS_MS == 3000

SWIPE_THRESHOLD == 50

\* What M5.Touch.getDetail() shows in one call of handleTouch: nothing, a
\* finger down at x = 60, a finger lifted 51 or 50 pixels left or right of it.
TouchInputs ==
    {[pressed |-> FALSE, released |-> FALSE, x |-> 0],
     [pressed |-> TRUE, released |-> FALSE, x |-> 60]}
    \cup {[pressed |-> FALSE, released |-> TRUE, x |-> x] : x \in {9, 10, 110, 111}}

\* Milliseconds that pass between two iterations: a frame, a stall, a long press.
TickSteps == {40, 3001}

(* handleTouch with the long press only marking the gesture, the portal not   *)
(* being started, and with the release evaluated as a swipe all the same.    *)
handleTouchSwipeAfterLong(inp) ==
    LET start == inp.pressed /\ touchStartTime = U32(0)
        long  == /\ inp.pressed
                 /\ ~start
                 /\ ~longPressTriggered
                 /\ U32Above(U32Sub(clock, touchStartTime), 3000)
        swipe  == inp.released /\ touchActive
        deltaX == inp.x - touchStartX
        mode   == IF swipe /\ deltaX > 50 THEN prevMode(gMode)
                  ELSE IF swipe /\ deltaX < 0 - 50 THEN nextMode(gMode)
                  ELSE gMode
        swiped == swipe /\ (deltaX > 50 \/ deltaX < 0 - 50)
    IN  /\ gMode' = mode
        /\ barTarget' = IF swiped THEN setBarTargetFromMode(mode, cur) ELSE barTarget
        /\ barValue' = barValue
        /\ setupMode' = setupMode
        /\ nSetup' = nSetup
        /\ touchStartTime' = IF inp.released THEN U32(0)
                             ELSE IF start THEN clock ELSE touchStartTime
        /\ touchStartX' = IF inp.released THEN 0 - 1
                          ELSE IF start THEN inp.x ELSE touchStartX
        /\ touchActive' = IF inp.released THEN FALSE
                          ELSE IF start THEN TRUE ELSE touchActive
        /\ longPressTriggered' = IF inp.released THEN FALSE
                                 ELSE (longPressTriggered \/ long)

\* handleTouch taking a travel of 50 pixels for a swipe already.
handleTouchSwipeAt50(inp) ==
    LET start == inp.pressed /\ touchStartTime = U32(0)
        long  == /\ inp.pressed
                 /\ ~start
                 /\ ~longPressTriggered
                 /\ U32Above(U32Sub(clock, touchStartTime), 3000)
        swipe  == inp.released /\ ~longPressTriggered /\ touchActive
        deltaX == inp.x - touchStartX
        mode   == IF swipe /\ deltaX >= 50 THEN prevMode(gMode)
                  ELSE IF swipe /\ deltaX <= 0 - 50 THEN nextMode(gMode)
                  ELSE gMode
        swiped == swipe /\ (deltaX >= 50 \/ deltaX <= 0 - 50)
    IN  /\ gMode' = mode
        /\ barTarget' = IF swiped THEN setBarTargetFromMode(mode, cur) ELSE barTarget
        /\ barValue' = IF swiped THEN BarValueAfterTarget(barValue, barTarget')
                       ELSE barValue
        /\ setupMode' = (setupMode \/ long)
        /\ nSetup' = IF long THEN nSetup + 1 ELSE nSetup
        /\ touchStartTime' = IF inp.released THEN U32(0)
                             ELSE IF start THEN clock ELSE touchStartTime
        /\ touchStartX' = IF inp.released THEN 0 - 1
                          ELSE IF start THEN inp.x ELSE touchStartX
        /\ touchActive' = IF inp.released THEN FALSE
                          ELSE IF start THEN TRUE ELSE touchActive
        /\ longPressTriggered' = IF inp.released THEN FALSE
                                 ELSE (longPressTriggered \/ long)

\* void handleTouch() with the touch detail inp.
handleTouch(inp) ==
    LET start == inp.pressed /\ touchStartTime = U32(0)
        long  == /\ inp.pressed
                 /\ ~start
                 /\ ~longPressTriggered
                 /\ U32Above(U32Sub(clock, touchStartTime), LONG_PRESS_MS)
        swipe  == inp.released /\ ~longPressTriggered /\ touchActive
        deltaX == inp.x - touchStartX
        mode   == IF swipe /\ deltaX > SWIPE_THRESHOLD THEN prevMode(gMode)
                  ELSE IF swipe /\ deltaX < 0 - SWIPE_THRESHOLD THEN nextMode(gMode)
                  ELSE gMode
        swiped == swipe /\ (deltaX > SWIPE_THRESHOLD \/ deltaX < 0 - SWIPE_THRESHOLD)
    IN  /\ gMode' = mode
        /\ barTarget' = IF swiped THEN setBarTargetFromMode(mode, cur) ELSE barTarget
        /\ barValue' = IF swiped THEN BarValueAfterTarget(barValue, barTarget')
                       ELSE barValue
        /\ setupMode' = (setupMode \/ long)
        /\ nSetup' = IF long THEN nSetup + 1 ELSE nSetup
        /\ touchStartTime' = IF inp.released THEN U32(0)
                             ELSE IF start THEN clock ELSE touchStartTime
        /\ touchStartX' = IF inp.released THEN 0 - 1
                          ELSE IF start THEN inp.x ELSE touchStartX
        /\ touchActive' = IF inp.released THEN FALSE
                          ELSE IF start THEN TRUE ELSE touchActive
        /\ longPressTriggered' = IF inp.released THEN FALSE
                                 ELSE (longPressTriggered \/ long)

\* The serial loop left after the first accepted record.
DrainOneRecord(n, accepted) == n > 0 /\ accepted = 0

\* while (Serial.available()): n bytes wait, `accepted` records were taken.
DrainContinues(n, accepted) == n > 0

\* The web server answering from a task of its own, wherever loop() stands.
ClientServedAnywhere(p) == TRUE

\* server.handleClient() is called at the top of loop() and nowhere else.
ClientServed(p) == p = "top"

\* The order in which parseCSVLine assigns the fields of cur.
FieldOrder ==
    <<"cpu", "mem", "gpu", "diskPct", "diskMBps", "cpuTempF", "gpuTempF",
      "freeC", "freeD", "indoorTempF", "lastUpdateMs">>

\* What the steps of the serial loop leave as they are.
nonSerial == <<clock, sid, gMode, lastAnim, nextFrame, touchVars, reqPending,
               nEvents, left, seen, seenBy, animHist, modeHist, elapsed,
               weatherVars, sysVars>>

\* if (isInSetupMode()) { configPortalLoop(); return; }
LoopPortal ==
    /\ pc = "top"
    /\ setupMode
    /\ UNCHANGED vars

(* doc["dataAgeMs"] of handleMetrics. The two results of its conditional are  *)
(* an unsigned long and the int -1, so both are brought to unsigned long:    *)
(* -1 becomes 2^32 - 1. The document holds an unsigned number.               *)
dataAgeMs(c, now) ==
    [sent |-> TRUE,
     neg  |-> FALSE,
     mag  |-> IF c.lastUpdateMs # U32(0) THEN U32Sub(now, c.lastUpdateMs)
              ELSE <<Half - 1, Half - 1>>]

(* if (WiFi.status() == WL_CONNECTED) server.handleClient(): a waiting       *)
(* GET /metrics is answered from cur.                                        *)
LoopClient ==
    /\ ClientServed(pc)
    /\ ~setupMode
    /\ IF reqPending /\ wifi
       THEN /\ seen' = cur
            /\ seenBy' = "metrics"
            /\ ageSent' = dataAgeMs(cur, clock)
            /\ reqPending' = FALSE
       ELSE UNCHANGED <<seen, seenBy, ageSent, reqPending>>
    /\ accIter' = 0
    /\ nlIter' = 0
    /\ pc' = "touch"
    /\ UNCHANGED <<cur, serialBuf, histCPU, histGPU, histDISK, histIdx, clock, sid,
                   pos, nParse, ret, handed, prevCur, rawLine, rawDone, nNewlines,
                   accLog, gMode, barTarget, barVars, touchVars, avail, wr, toStore,
                   nEvents, left, snaps, animHist, modeHist, elapsed, weatherVars,
                   nSetup, touchSeen, setupVars>>

\* handleTouch();
LoopTouch ==
    /\ pc = "touch"
    /\ \E inp \in TouchInputs :
          /\ (inp.pressed \/ inp.released) => nEvents < MaxEvents
          /\ nEvents' = IF inp.pressed \/ inp.released THEN nEvents + 1 ELSE nEvents
          /\ handleTouch(inp)
          /\ touchSeen' = inp
    /\ pc' = "serial"
    /\ UNCHANGED <<cur, serialBuf, histCPU, histGPU, histDISK, histIdx, clock, sid,
                   pos, nParse, ret, handed, prevCur, rawLine, rawDone, nNewlines,
                   accLog, lastAnim, nextFrame, avail, wr, toStore, reqPending,
                   accIter, nlIter, left, seen, seenBy, snaps, animHist,
                   modeHist, elapsed, weatherVars, ageSent, setupVars>>

\* c == '\r' in the serial loop.
LoopSerialCR ==
    /\ pc = "serial"
    /\ DrainContinues(avail, accIter)
    /\ NextByte = "\r"
    /\ rawLine' = Append(rawLine, NextByte)
    /\ pos' = pos + 1
    /\ avail' = avail - 1
    /\ UNCHANGED <<cur, serialBuf, histCPU, histGPU, histDISK, histIdx, nParse, ret,
                   handed, prevCur, rawDone, nNewlines, accLog, barTarget, barValue,
                   pc, wr, toStore, accIter, nlIter, snaps, nonSerial>>

\* any other byte than '\n' and '\r' in the serial loop.
LoopSerialChar ==
    /\ pc = "serial"
    /\ DrainContinues(avail, accIter)
    /\ NextByte \notin {"\n", "\r"}
    /\ serialBuf' = AppendByte(serialBuf, NextByte)
    /\ rawLine' = Append(rawLine, NextByte)
    /\ pos' = pos + 1
    /\ avail' = avail - 1
    /\ UNCHANGED <<cur, histCPU, histGPU, histDISK, histIdx, nParse, ret,
                   handed, prevCur, rawDone, nNewlines, accLog, barTarget, barValue,
                   pc, wr, toStore, accIter, nlIter, snaps, nonSerial>>

\* c == '\n': parseCSVLine scans the line; with fewer than 9 fields it returns
\* false, else it starts to assign.
LoopParseBegin ==
    /\ pc = "serial"
    /\ DrainContinues(avail, accIter)
    /\ NextByte = "\n"
    /\ LET r == ScanFields(serialBuf)
       IN  IF r.idx < MIN_FIELDS
           THEN /\ ret' = FALSE
                /\ serialBuf' = ClearedBuf(serialBuf)
                /\ UNCHANGED <<pc, wr, toStore>>
           ELSE /\ pc' = "store"
                /\ wr' = 0
                /\ toStore' = StoreVals(cur, r.vals, r.idx, clock)
                /\ UNCHANGED <<ret, serialBuf>>
    /\ handed' = serialBuf
    /\ prevCur' = cur
    /\ nParse' = nParse + 1
    /\ rawDone' = rawLine
    /\ rawLine' = <<>>
    /\ nNewlines' = nNewlines + 1
    /\ nlIter' = nlIter + 1
    /\ pos' = pos + 1
    /\ avail' = avail - 1
    /\ UNCHANGED <<cur, histCPU, histGPU, histDISK, histIdx, accLog, barTarget,
                   barValue, accIter, snaps, nonSerial>>

\* One assignment of parseCSVLine to a field of cur.
LoopStoreField ==
    /\ pc = "store"
    /\ wr < Len(FieldOrder)
    /\ cur' = [cur EXCEPT ![FieldOrder[wr + 1]] = toStore[FieldOrder[wr + 1]]]
    /\ wr' = wr + 1
    /\ UNCHANGED <<serialBuf, histCPU, histGPU, histDISK, histIdx, pos, nParse, ret,
                   handed, prevCur, rawLine, rawDone, nNewlines, accLog, barTarget,
                   barValue, pc, avail, toStore, accIter, nlIter, snaps, nonSerial>>

\* parseCSVLine returns true: the samples, the cursor, the bar target.
LoopParseEnd ==
    /\ pc = "store"
    /\ wr = Len(FieldOrder)
    /\ StoreSample(cur)
    /\ ret' = TRUE
    /\ serialBuf' = ClearedBuf(serialBuf)
    /\ snaps' = snaps \cup {cur}
    /\ accIter' = accIter + 1
    /\ pc' = "serial"
    /\ wr' = 0
    /\ UNCHANGED <<cur, pos, nParse, handed, prevCur, rawLine, rawDone, nNewlines,
                   avail, toStore, nlIter, nonSerial>>

\* Serial.available() is 0: the serial loop is left.
LoopSerialDone ==
    /\ pc = "serial"
    /\ ~DrainContinues(avail, accIter)
    /\ left' = avail
    /\ pc' = "draw"
    /\ UNCHANGED <<cur, serialBuf, histCPU, histGPU, histDISK, histIdx, clock, sid,
                   pos, nParse, ret, handed, prevCur, rawLine, rawDone, nNewlines,
                   accLog, gMode, barTarget, barVars, touchVars, avail, wr, toStore,
                   reqPending, nEvents, accIter, nlIter, seen, seenBy, snaps, animHist,
                   modeHist, elapsed, weatherVars, sysVars>>

\* gMode is not MODE_WEATHER and now >= nextFrame.
FrameDue == gMode # MODE_WEATHER /\ ~U32Less(clock, nextFrame)

\* millis() > timePased + UPDATE_INTERVAL_MS, the sum an unsigned long.
PollDue(now, tp) == U32Less(U32Add(tp, UPDATE_INTERVAL_MS), now)

(* static bool doWeatherFetch() on the answers f. The time the requests take *)
(* is left out: the model has them answered at once.                        *)
doWeatherFetch(f) ==
    LET r == getData(data, [state EXCEPT !.updateCounter = @ + 1], f, wifi)
        n == r.state.updateCounter
    IN  /\ data' = r.data
        /\ state' = [r.state EXCEPT
                         !.updateCounter = IF n >= SYNC_INTERVAL_UPDATES THEN 0 ELSE n]
        /\ gret' = r.ret
        /\ fret' = r.fret
        /\ feed' = f
        /\ nFetch' = IF nFetch < 2 THEN nFetch + 1 ELSE nFetch
        /\ pollFlip' = ~pollFlip

\* The timer of the periodic fetch has not fired.
NoFetch ==
    UNCHANGED <<data, state, gret, fret, feed, nFetch, pollFlip, timePased, sincePoll>>

\* void weatherUpdateOnly()
weatherUpdateOnly ==
    IF PollDue(clock, timePased)
    THEN /\ timePased' = clock
         /\ sincePoll' = 0
         /\ \E f \in PollFeeds : doWeatherFetch(f)
    ELSE NoFetch

(* void weatherStep(): every 25 ms the timer is looked at and the display is *)
(* drawn; a fetch comes behind delay(2000).                                  *)
weatherStep ==
    IF ~U32Less(U32Sub(clock, lastDisplayUpdate), U32(25))
    THEN /\ lastDisplayUpdate' = clock
         /\ IF PollDue(clock, timePased)
            THEN /\ timePased' = clock
                 /\ clock' = U32Add(clock, 2000)
                 /\ elapsed' = Later(elapsed, 2000)
                 /\ sincePoll' = 2000
                 /\ \E f \in PollFeeds : doWeatherFetch(f)
            ELSE NoFetch /\ UNCHANGED <<clock, elapsed>>
    ELSE NoFetch /\ UNCHANGED <<lastDisplayUpdate, clock, elapsed>>

(* The drawing of the mode: weatherStep() in weather mode, else a frame      *)
(* (animateBar and render) when one is due, and weatherUpdateOnly().         *)
LoopDraw ==
    /\ pc = "draw"
    /\ IF FrameDue
       THEN LET a == animateBar(barValue, barTarget, lastAnim, clock)
            IN  /\ nextFrame' = U32Add(clock, FRAME_MS)
                /\ barValue' = a.barValue
                /\ lastAnim' = a.lastAnim
                /\ lastDt' = a.dt
                /\ animFrom' = lastAnim
                /\ barBefore' = barValue
                /\ animFlip' = ~animFlip
                /\ seen' = cur
                /\ seenBy' = "render"
                /\ elapsed' = 0
                /\ shown' = render(gMode, histCPU, histGPU, histDISK, histIdx,
                                   Len(accLog))
                /\ histIdx' = IdxAfterDraw(histIdx)
       ELSE /\ UNCHANGED <<barVars, animHist, seen, seenBy, histIdx>>
            /\ gMode # MODE_WEATHER => elapsed' = elapsed
    /\ IF gMode = MODE_WEATHER
       THEN weatherStep
       ELSE weatherUpdateOnly /\ UNCHANGED <<lastDisplayUpdate, clock>>
    /\ pc' = "top"
    /\ UNCHANGED <<cur, serialBuf, histCPU, histGPU, histDISK, sid,
                   pos, nParse, ret, handed, prevCur, rawLine, rawDone, nNewlines,
                   accLog, gMode, barTarget, touchVars, avail, wr, toStore,
                   reqPending, nEvents, accIter, nlIter, left, snaps, modeHist,
                   sysVars>>

\* What the inputs of the environment leave as they are.
nonInput == <<cur, serialBuf, histCPU, histGPU, histDISK, histIdx, sid, pos,
              nParse, ret, handed, prevCur, rawLine, rawDone, nNewlines, accLog,
              gMode, barTarget, barVars, touchVars, pc, wr, toStore, accIter,
              nlIter, left, seen, seenBy, snaps, animHist, modeHist, data, feed,
              fret, nFetch, state, gret, timePased, lastDisplayUpdate, pollFlip,
              sysVars>>

\* Time passes between two iterations.
Tick ==
    /\ pc = "top"
    /\ nEvents < MaxEvents
    /\ \E d \in TickSteps :
          /\ clock' = U32Add(clock, d)
          /\ elapsed' = Later(elapsed, d)
          /\ sincePoll' = PollLater(sincePoll, d)
    /\ nEvents' = nEvents + 1
    /\ UNCHANGED <<avail, reqPending, nonInput>>

\* The index of the first '\n' of stream s behind index i (Len(s) if none).
LineStop(s, i) ==
    IF \E j \in (i + 1)..Len(s) : s[j] = "\n"
    THEN CHOOSE j \in (i + 1)..Len(s) :
            s[j] = "\n" /\ \A k \in (i + 1)..(j - 1) : s[k] # "\n"
    ELSE Len(s)

\* Bytes arrive on the serial line: the rest of a line, or all that is left.
Arrive ==
    /\ pc \in {"top", "serial"}
    /\ nEvents < MaxEvents
    /\ pos + avail < Len(Streams[sid])
    /\ \E upto \in {LineStop(Streams[sid], pos + avail), Len(Streams[sid])} :
          avail' = upto - pos
    /\ nEvents' = nEvents + 1
    /\ UNCHANGED <<clock, reqPending, elapsed, sincePoll, nonInput>>

\* A client sends GET /metrics.
MetricsRequest ==
    /\ ~setupMode
    /\ ~reqPending
    /\ nEvents < MaxEvents
    /\ reqPending' = TRUE
    /\ nEvents' = nEvents + 1
    /\ UNCHANGED <<clock, avail, elapsed, sincePoll, nonInput>>

\* The streams of the loop: two accepted records, behind nothing and behind
\* a rejected line, with "\n" and with "\r\n".
LoopSids == {1, Len(Prefixes) * Len(Records) + 2}

\* The state setup() leaves: lastAnim = millis() early in it, then the WiFi
\* connection and weatherInit() take their seconds.
InitLoop ==
    /\ InitGlobals
    /\ cur = StatsBoot
    /\ InitHistory
    /\ lastAnim = U32(100)
    /\ nextFrame = U32(0)
    /\ clock = U32(2600)
    /\ pc = "top"
    /\ avail = 0
    /\ sid \in LoopSids
    /\ pos = 0
    /\ InitRunning(LastPoll(clock))

NextLoop ==
    \/ LoopPortal
    \/ LoopClient
    \/ LoopTouch
    \/ LoopSerialCR
    \/ LoopSerialChar
    \/ LoopParseBegin
    \/ LoopStoreField
    \/ LoopParseEnd
    \/ LoopSerialDone
    \/ LoopDraw
    \/ Tick
    \/ Arrive
    \/ MetricsRequest

SpecLoop == InitLoop /\ [][NextLoop]_vars

-----------------------------------------------------------------------------
(* The bar under records, swipes and frames: loop() with each record read    *)
(* whole, its bytes and its '\n' arriving and being read in one serial loop. *)

\* A record carrying cpu, gpu and diskPct, all other fields 0.
BarLine(cpu, gpu, disk) ==
    Join(<<cpu, <<"0">>, gpu, disk, <<"0">>, <<"0">>, <<"0">>, <<"0">>, <<"0">>>>)

\* Records with a negative field, fields above 100, a full load, a field "nan".
BarLines ==
    {BarLine(<<"-", "5">>, <<"1", "5", "0">>, <<"5", "0">>),
     BarLine(<<"1", "0", "0">>, <<"0">>, <<"1", "0", "0", ".", "5">>),
     BarLine(<<"n", "a", "n">>, <<"4", "0">>, <<"0">>)}

\* The bytes of one record and its '\n' are read by the serial loop.
BarRecord ==
    /\ pc = "serial"
    /\ avail = 0
    /\ serialBuf = <<>>
    /\ nEvents < MaxEvents
    /\ \E line \in BarLines :
          /\ LineEnd(line)
          /\ rawDone' = line
    /\ rawLine' = <<>>
    /\ nNewlines' = nNewlines + 1
    /\ nlIter' = nlIter + 1
    /\ accIter' = IF ret' THEN accIter + 1 ELSE accIter
    /\ snaps' = IF ret' THEN snaps \cup {cur'} ELSE snaps
    /\ nEvents' = nEvents + 1
    /\ UNCHANGED <<clock, sid, pos, gMode, lastAnim, nextFrame, touchVars, loopVars,
                   left, seen, seenBy, animHist, modeHist, elapsed, weatherVars,
                   sysVars>>

\* millis(), lastAnim and nextFrame when the model starts: after setup(), and
\* on a device left alone for 49 days, 20 ms before millis() wraps, its last
\* frame drawn 33 ms ago.
BarStarts ==
    {[clock |-> U32(2600), lastAnim |-> U32(100), nextFrame |-> U32(0)],
     [clock |-> <<Half - 1, Half - 20>>, lastAnim |-> <<Half - 1, Half - 53>>,
      nextFrame |-> <<Half - 1, Half - 20>>]}

InitBar ==
    /\ InitGlobals
    /\ cur = StatsBoot
    /\ InitHistory
    /\ \E t \in BarStarts :
          /\ clock = t.clock
          /\ lastAnim = t.lastAnim
          /\ nextFrame = t.nextFrame
    /\ pc = "top"
    /\ avail = 0
    /\ sid = 1
    /\ pos = 0
    /\ InitRunning(LastPoll(clock))

NextBar ==
    \/ LoopPortal
    \/ LoopClient
    \/ LoopTouch
    \/ BarRecord
    \/ LoopSerialDone
    \/ LoopDraw
    \/ Tick

SpecBar == InitBar /\ [][NextBar]_vars

-----------------------------------------------------------------------------
(* Frames at the pace of loop(): from a full-load record just accepted, time *)
(* moves on by one frame period whenever the frame before has been drawn.    *)

\* Number of frame periods the run lasts.
MaxFrameTicks == 36

\* A record with cpu = 100.
FullLoad == BarLine(<<"1", "0", "0">>, <<"0">>, <<"0">>)

\* millis() when the record arrives: after setup(), after a day.
FrameStarts == {U32(2600), U32(86400 * 1000)}

(* The state one iteration after a frame was drawn at millis() = t with the  *)
(* bar at rest at 0: FullLoad has been read and accepted in CPU mode, no     *)
(* further byte, touch or request comes.                                     *)
InitFrames ==
    \E t \in FrameStarts :
        LET r == parseCSVLine(FullLoad, StatsBoot, t)
        IN  /\ cur = r.cur
            /\ clock = t
            /\ serialBuf = <<>>
            /\ histCPU = WriteSample(HistZero, 0, r.cur.cpu)
            /\ histGPU = WriteSample(HistZero, 0, r.cur.gpu)
            /\ histDISK = WriteSample(HistZero, 0, r.cur.diskPct)
            /\ histIdx = NextIdx(0)
            /\ gMode = MODE_CPU
            /\ barTarget = setBarTargetFromMode(MODE_CPU, r.cur)
            /\ barValue = 0
            /\ lastAnim = t
            /\ nextFrame = U32Add(t, FRAME_MS)
            /\ touchStartX = 0 - 1
            /\ touchActive = FALSE
            /\ touchStartTime = U32(0)
            /\ longPressTriggered = FALSE
            /\ setupMode = FALSE
            /\ pc = "top"
            /\ avail = 0
            /\ wr = 0
            /\ toStore = StatsBoot
            /\ reqPending = FALSE
            /\ sid = 1
            /\ pos = 0
            /\ nParse = 1
            /\ ret = r.ok
            /\ handed = FullLoad
            /\ prevCur = StatsBoot
            /\ rawLine = <<>>
            /\ rawDone = FullLoad
            /\ nNewlines = 1
            /\ accLog = <<<<r.cur.cpu, r.cur.gpu, r.cur.diskPct>>>>
            /\ nEvents = MaxEvents
            /\ animFlip = TRUE
            /\ lastDt = 0
            /\ animFrom = t
            /\ barBefore = 0
            /\ accIter = 1
            /\ nlIter = 1
            /\ left = 0
            /\ seen = StatsBoot
            /\ seenBy = "render"
            /\ snaps = {r.cur}
            /\ modeLog = <<>>
            /\ opLog = <<>>
            /\ elapsed = 0
            /\ shown = render(MODE_CPU, HistZero, HistZero, HistZero, 0, 0)
            /\ data = DataBoot
            /\ feed = NoFeed
            /\ fret = NotFetched
            /\ nFetch = 0
            /\ InitRunning(LastPoll(clock))

\* The time of the next frame comes.
FrameTick ==
    /\ pc = "top"
    /\ ~FrameDue
    /\ nEvents < MaxEvents + MaxFrameTicks
    /\ clock' = U32Add(clock, FRAME_MS)
    /\ elapsed' = Later(elapsed, FRAME_MS)
    /\ sincePoll' = PollLater(sincePoll, FRAME_MS)
    /\ nEvents' = nEvents + 1
    /\ UNCHANGED <<avail, reqPending, nonInput>>

\* Frame periods gone by since the record.
FramesGone == nEvents - MaxEvents

NextFrames ==
    \/ LoopClient
    \/ LoopTouch
    \/ LoopSerialDone
    \/ LoopDraw
    \/ FrameTick

SpecFrames == InitFrames /\ [][NextFrames]_vars

-----------------------------------------------------------------------------
(* The pacing of the frames: loop() with touches and with time passing, the  *)
(* serial input silent. loop() is called again and again and none of its     *)
(* steps waits, so an iteration that has begun is carried through.           *)

(* millis(), lastAnim and nextFrame when the model starts: after setup(),    *)
(* and on a device up for 49 days with the deadline of its next frame just   *)
(* reached, 20 ms and 60 ms before millis() wraps.                           *)
PaceStarts ==
    {[clock |-> U32(2600), lastAnim |-> U32(100), nextFrame |-> U32(0)],
     [clock |-> <<Half - 1, Half - 20>>, lastAnim |-> <<Half - 1, Half - 53>>,
      nextFrame |-> <<Half - 1, Half - 20>>],
     [clock |-> <<Half - 1, Half - 60>>, lastAnim |-> <<Half - 1, Half - 93>>,
      nextFrame |-> <<Half - 1, Half - 60>>]}

InitPace ==
    /\ InitGlobals
    /\ cur = StatsBoot
    /\ InitHistory
    /\ \E t \in PaceStarts :
          /\ clock = t.clock
          /\ lastAnim = t.lastAnim
          /\ nextFrame = t.nextFrame
    /\ pc = "top"
    /\ avail = 0
    /\ sid = 1
    /\ pos = 0
    /\ InitRunning(LastPoll(clock))

\* One step of an iteration of loop() outside the portal.
LoopStep == LoopClient \/ LoopTouch \/ LoopSerialDone \/ LoopDraw

NextPace ==
    \/ LoopPortal
    \/ LoopStep
    \/ Tick

SpecPace == InitPace /\ [][NextPace]_vars /\ WF_vars(LoopStep)

-----------------------------------------------------------------------------
(* The timer of the periodic weather fetch: loop() with swipes between the   *)
(* modes and with time passing, the serial input silent.                     *)

(* millis() and timePased when the model starts: at the end of setup(), and  *)
(* on a device up for 49 days, 100 ms before millis() wraps, whose timer     *)
(* fired 180 s ago.                                                          *)
PollStarts ==
    {[clock |-> U32(2600), timePased |-> U32(2600)],
     [clock |-> <<Half - 1, Half - 100>>,
      timePased |-> U32Sub(<<Half - 1, Half - 100>>, U32(UPDATE_INTERVAL_MS))]}

InitPoll ==
    /\ InitGlobals
    /\ cur = StatsBoot
    /\ InitHistory
    /\ \E t \in PollStarts :
          /\ clock = t.clock
          /\ lastAnim = U32Sub(t.clock, U32(FRAME_MS))
          /\ nextFrame = t.clock
          /\ InitRunning(t.timePased)
    /\ pc = "top"
    /\ avail = 0
    /\ sid = 1
    /\ pos = 0

\* Three minutes and a millisecond pass between two iterations.
Idle ==
    /\ pc = "top"
    /\ nEvents < MaxEvents
    /\ clock' = U32Add(clock, UPDATE_INTERVAL_MS + 1)
    /\ elapsed' = Later(elapsed, UPDATE_INTERVAL_MS + 1)
    /\ sincePoll' = PollLater(sincePoll, UPDATE_INTERVAL_MS + 1)
    /\ nEvents' = nEvents + 1
    /\ UNCHANGED <<avail, reqPending, nonInput>>

NextPoll ==
    \/ LoopPortal
    \/ LoopClient
    \/ LoopTouch
    \/ LoopSerialDone
    \/ LoopDraw
    \/ Tick
    \/ Idle

SpecPoll == InitPoll /\ [][NextPoll]_vars

-----------------------------------------------------------------------------
(* setup(): the stored configuration is loaded and checked, wifiConnect()    *)
(* waits up to 15 s for the connection, then weatherInit() runs; where the   *)
(* configuration or the connection is missing the portal is started.         *)
(* bootPc is "boot", "check", "connect" (in the wait of wifiConnect),        *)
(* "verdict" (behind the wait), "weather" and "done".                        *)

\* The check reading the stored flag alone.
configPortalCheckFlagOnly(n, ssid) == n.configured

\* bool configPortalCheck(), on the stored preferences n and the cached SSID.
configPortalCheck(n, ssid) == n.configured /\ ssid # ""

\* The preferences a device may hold: nothing, a full or a partial configuration.
NvsSamples == [configured : BOOLEAN, ssid : {"", "home"}]

\* The state when setup() reaches configPortalInit(), behind the splash.
InitSetup ==
    /\ InitGlobals
    /\ cur = StatsBoot
    /\ InitHistory
    /\ clock = U32(500)
    /\ lastAnim = U32(100)
    /\ nextFrame = U32(0)
    /\ pc = "top"
    /\ avail = 0
    /\ sid = 1
    /\ pos = 0
    /\ state = StateBoot
    /\ gret = FALSE
    /\ timePased = U32(0)
    /\ lastDisplayUpdate = U32(0)
    /\ pollFlip = FALSE
    /\ sincePoll = 0
    /\ ageSent = NoAnswer
    /\ nSetup = 0
    /\ touchSeen = NoTouch
    /\ nvs \in NvsSamples
    /\ cachedSSID = ""
    /\ wifi = FALSE
    /\ routes = FALSE
    /\ weatherOn = FALSE
    /\ bootPc = "boot"
    /\ connStart = U32(0)
    /\ outcome = "none"

\* What no step of setup() writes.
setupRest == <<cur, serialBuf, histCPU, histGPU, histDISK, histIdx, sid, pos, nParse,
               ret, handed, prevCur, rawLine, rawDone, nNewlines, accLog, gMode,
               barVars, touchStartX, touchActive, touchStartTime,
               longPressTriggered, loopVars, accIter, nlIter, left, seen, seenBy,
               snaps, animHist, modeHist, elapsed, lastDisplayUpdate, pollFlip,
               sincePoll, ageSent, nSetup, touchSeen, nvs>>

\* What weatherInit() writes.
weatherInitVars == <<data, feed, fret, nFetch, state, gret, timePased, weatherOn,
                     barTarget>>

\* configPortalInit(): loadConfig() caches the stored SSID.
SetupLoad ==
    /\ bootPc = "boot"
    /\ cachedSSID' = nvs.ssid
    /\ bootPc' = "check"
    /\ UNCHANGED <<setupRest, weatherInitVars, clock, nEvents, setupMode, wifi,
                   routes, connStart, outcome>>

(* if (!configPortalCheck()) { configPortalStart(); return; } and the first  *)
(* lines of wifiConnect(): without an SSID it returns false, and setup()     *)
(* starts the portal; else WiFi.begin and start = millis().                  *)
SetupCheck ==
    /\ bootPc = "check"
    /\ IF ~configPortalCheck(nvs, cachedSSID)
       THEN /\ setupMode' = TRUE
            /\ outcome' = "nocfg"
            /\ bootPc' = "done"
            /\ UNCHANGED connStart
       ELSE IF cachedSSID = ""
       THEN /\ setupMode' = TRUE
            /\ outcome' = "nossid"
            /\ bootPc' = "done"
            /\ UNCHANGED connStart
       ELSE /\ connStart' = clock
            /\ bootPc' = "connect"
            /\ UNCHANGED <<setupMode, outcome>>
    /\ UNCHANGED <<setupRest, weatherInitVars, clock, nEvents, cachedSSID, wifi,
                   routes>>

\* while (WiFi.status() != WL_CONNECTED && millis() - start < 15000): delay(250)
SetupWait ==
    /\ bootPc = "connect"
    /\ ~wifi
    /\ U32Less(U32Sub(clock, connStart), U32(15000))
    /\ clock' = U32Add(clock, 250)
    /\ UNCHANGED <<setupRest, weatherInitVars, nEvents, setupMode, cachedSSID, wifi,
                   routes, bootPc, connStart, outcome>>

\* The wait of wifiConnect() is left: connected, or the 15 s are over.
SetupWaitOver ==
    /\ bootPc = "connect"
    /\ wifi \/ ~U32Less(U32Sub(clock, connStart), U32(15000))
    /\ bootPc' = "verdict"
    /\ UNCHANGED <<setupRest, weatherInitVars, clock, nEvents, setupMode, cachedSSID,
                   wifi, routes, connStart, outcome>>

(* if (WiFi.status() == WL_CONNECTED) the routes are registered and          *)
(* wifiConnect() returns true; else it returns false and setup() starts the  *)
(* portal.                                                                   *)
SetupVerdict ==
    /\ bootPc = "verdict"
    /\ IF wifi
       THEN /\ routes' = TRUE
            /\ outcome' = "connected"
            /\ bootPc' = "weather"
            /\ UNCHANGED setupMode
       ELSE /\ setupMode' = TRUE
            /\ outcome' = "failed"
            /\ bootPc' = "done"
            /\ UNCHANGED routes
    /\ UNCHANGED <<setupRest, weatherInitVars, clock, nEvents, cachedSSID, wifi,
                   connStart>>

(* weatherInit() and setBarTargetFromMode(): isConnected is set if WiFi is   *)
(* connected, delay(2000), the first fetch, the timer of the periodic fetch. *)
SetupWeather ==
    /\ bootPc = "weather"
    /\ clock' = U32Add(clock, 2000)
    /\ \E f \in PollFeeds :
          LET r == getData(data, [state EXCEPT !.isConnected = @ \/ wifi], f, wifi)
          IN  /\ data' = r.data
              /\ state' = r.state
              /\ gret' = r.ret
              /\ fret' = r.fret
              /\ feed' = f
    /\ nFetch' = nFetch + 1
    /\ timePased' = clock'
    /\ weatherOn' = TRUE
    /\ barTarget' = setBarTargetFromMode(gMode, cur)
    /\ bootPc' = "done"
    /\ UNCHANGED <<setupRest, nEvents, setupMode, cachedSSID, wifi, routes,
                   connStart, outcome>>

\* The access point comes into reach or goes out of it while setup() runs.
WifiChange ==
    /\ bootPc \in {"connect", "verdict", "weather"}
    /\ nEvents < MaxEvents
    /\ wifi' = ~wifi
    /\ nEvents' = nEvents + 1
    /\ UNCHANGED <<setupRest, weatherInitVars, clock, setupMode, cachedSSID, routes,
                   bootPc, connStart, outcome>>

NextSetup ==
    \/ SetupLoad
    \/ SetupCheck
    \/ SetupWait
    \/ SetupWaitOver
    \/ SetupVerdict
    \/ SetupWeather
    \/ WifiChange

SpecSetup == InitSetup /\ [][NextSetup]_vars

-----------------------------------------------------------------------------
(* getData alone: one call, on the answers of the weather service *)

\* Highest number of entries of a forecast "list".
MaxFeedLen == 3

(* Values of "dt" in the forecast: none (0), the evening before, today 15:00, *)
(* tomorrow 03:00, the day after tomorrow 12:00, the day after that 00:00,   *)
(* all UTC.                                                                  *)
FeedTimes ==
    {0,
     Midnight - Hours(1),
     Midnight + Hours(15),
     Midnight + kSecondsPerDay + Hours(3),
     Midnight + 2 * kSecondsPerDay + Hours(12),
     Midnight + 3 * kSecondsPerDay}

FeedLists == UNION {[1..n -> FeedTimes] : n \in 0..MaxFeedLen}

(* The answers: the current weather fails, or comes with or without "dt"     *)
(* (10:00 UTC) and "timezone" (UTC-5, UTC+1); the forecast fails, or comes   *)
(* with a list and with or without "city"."timezone".                        *)
Feeds ==
    {f \in [ok : BOOLEAN, dt : {{}, {Midnight + Hours(10)}},
            tz : {{}, {0 - 18000}, {3600}}, fok : BOOLEAN,
            list : FeedLists, cityTz : {{}, {0 - 18000}}] :
        /\ ~f.fok => (f.list = <<>> /\ f.cityTz = {})
        /\ ~f.ok => (f.dt = {} /\ f.tz = {} /\ ~f.fok)}

InitWeather ==
    /\ InitGlobals
    /\ cur = StatsBoot
    /\ InitHistory
    /\ clock = U32(2600)
    /\ lastAnim = U32(100)
    /\ nextFrame = U32(0)
    /\ pc = "top"
    /\ avail = 0
    /\ sid = 1
    /\ pos = 0
    /\ InitRunning(LastPoll(clock))

\* What a call of getData leaves as it is.
nonWeather == <<cur, serialBuf, histCPU, histGPU, histDISK, histIdx, clock, sid, pos,
                nParse, ret, handed, prevCur, rawLine, rawDone, nNewlines, accLog,
                gMode, barTarget, barVars, touchVars, loopVars, loopHist, animHist,
                modeHist, elapsed, timePased, lastDisplayUpdate, pollFlip, sincePoll,
                sysVars>>

(* api.getData(data_, state_): a first call on any answers, and a second one *)
(* behind a first call that got a full answer.                               *)
GetData ==
    /\ nFetch = 0 \/ (nFetch = 1 /\ feed = EarlierFeed)
    /\ \E f \in Feeds \cup {EarlierFeed} :
          LET r == getData(data, state, f, wifi)
          IN  /\ data' = r.data
              /\ state' = r.state
              /\ gret' = r.ret
              /\ fret' = r.fret
              /\ feed' = f
    /\ nFetch' = nFetch + 1
    /\ UNCHANGED nonWeather

NextWeather == GetData

SpecWeather == InitWeather /\ [][NextWeather]_vars

-----------------------------------------------------------------------------
(* nextMode and prevMode alone: up to MaxOps calls, in any order, from boot *)

\* Highest number of calls.
MaxOps == 7

InitMode ==
    /\ InitGlobals
    /\ cur = StatsBoot
    /\ InitHistory
    /\ clock = U32(2600)
    /\ lastAnim = U32(100)
    /\ nextFrame = U32(0)
    /\ pc = "top"
    /\ avail = 0
    /\ sid = 1
    /\ pos = 0
    /\ InitRunning(LastPoll(clock))

\* What a call of nextMode or prevMode alone leaves as it is.
nonMode == <<cur, serialBuf, histCPU, histGPU, histDISK, histIdx, clock, sid, pos,
             nParse, ret, handed, prevCur, rawLine, rawDone, nNewlines, accLog,
             barTarget, barVars, touchVars, loopVars, loopHist, animHist, elapsed,
             weatherVars, sysVars>>

CallNextMode ==
    /\ Len(opLog) < MaxOps
    /\ gMode' = nextMode(gMode)
    /\ modeLog' = Append(modeLog, gMode)
    /\ opLog' = Append(opLog, "next")
    /\ UNCHANGED nonMode

CallPrevMode ==
    /\ Len(opLog) < MaxOps
    /\ gMode' = prevMode(gMode)
    /\ modeLog' = Append(modeLog, gMode)
    /\ opLog' = Append(opLog, "prev")
    /\ UNCHANGED nonMode

NextMode == CallNextMode \/ CallPrevMode

SpecMode == InitMode /\ [][NextMode]_vars

-----------------------------------------------------------------------------
(* The fields of a line as the interface defines them: the texts between     *)
(* its commas, counted from 1.                                               *)

Commas(line) == {i \in 1..Len(line) : line[i] = ","}

NumFields(line) == Cardinality(Commas(line)) + 1

\* Index of the k-th comma; 0 stands before the line, NumFields behind it.
CommaAt(line, k) ==
    IF k = 0 THEN 0
    ELSE IF k >= NumFields(line) THEN Len(line) + 1
    ELSE CHOOSE i \in Commas(line) : Cardinality({j \in Commas(line) : j < i}) = k - 1

Field(line, k) == SubSeq(line, CommaAt(line, k - 1) + 1, CommaAt(line, k) - 1)

FieldVal(line, k) == toFloat(Field(line, k))

-----------------------------------------------------------------------------
(* Claims about parseCSVLine, under SpecParse *)

\* C1: a line with fewer than 9 fields (commas + 1, the empty line has 1) makes
\* parseCSVLine return false and leaves every field of cur, lastUpdateMs
\* included, as it was.
C1_RejectLeavesStats ==
    (nParse = 1 /\ NumFields(handed) < 9) => (ret = FALSE /\ cur = prevCur)

\* C1 witness: an 8-field line was rejected while cur held a record of an
\* earlier time than the clock shows.
C1_Witness ==
    /\ nParse = 1
    /\ NumFields(handed) = 8
    /\ ret = FALSE
    /\ prevCur # StatsBoot
    /\ prevCur.lastUpdateMs # clock

\* C2: a line with at least 9 fields makes parseCSVLine return true and sets
\* cpu, mem, gpu, diskPct, diskMBps, cpuTempF, gpuTempF, freeC, freeD to the
\* fields 1..9 in that order; indoorTempF is field 10 when the line has at
\* least 10 fields and field 6 of the same line otherwise.
C2_AcceptStoresFields ==
    (nParse = 1 /\ NumFields(handed) >= 9) =>
        /\ ret = TRUE
        /\ cur.cpu = FieldVal(handed, 1)
        /\ cur.mem = FieldVal(handed, 2)
        /\ cur.gpu = FieldVal(handed, 3)
        /\ cur.diskPct = FieldVal(handed, 4)
        /\ cur.diskMBps = FieldVal(handed, 5)
        /\ cur.cpuTempF = FieldVal(handed, 6)
        /\ cur.gpuTempF = FieldVal(handed, 7)
        /\ cur.freeC = FieldVal(handed, 8)
        /\ cur.freeD = FieldVal(handed, 9)
        /\ cur.indoorTempF = IF NumFields(handed) >= 10
                             THEN FieldVal(handed, 10)
                             ELSE FieldVal(handed, 6)

\* C2 witness: a 9-field line was accepted over a cur whose indoorTempF
\* differed from the line's field 6, and indoorTempF now is that field.
C2_Witness ==
    /\ nParse = 1
    /\ ret = TRUE
    /\ NumFields(handed) = 9
    /\ prevCur.indoorTempF # FieldVal(handed, 6)
    /\ cur.indoorTempF = FieldVal(handed, 6)
    /\ cur.cpuTempF # cur.gpuTempF

-----------------------------------------------------------------------------
(* Claims about the line accumulator, under SpecIngest *)

\* The characters of a raw line: its bytes other than '\r', which is dropped.
NoCR(raw) == SelectSeq(raw, LAMBDA c : c # "\r")

LastChars(t, n) == SubSeq(t, Len(t) - n + 1, Len(t))

\* C3: after any sequence of serial bytes the line buffer serialBuf holds at
\* most 200 characters.
C3_BufferBounded == Len(serialBuf) <= 200

\* C3 witness: more than 200 characters arrived on one line and the buffer
\* stands at 200.
C3_Witness == Len(NoCR(rawLine)) > 200 /\ Len(serialBuf) = 200

\* C4 as stated: 250 bytes, none of them '\n', then '\n', hand the parser a
\* record of exactly 200 characters, the last 200 of the 250 bytes.
C4_Original ==
    (nNewlines >= 1 /\ Len(rawDone) = 250) =>
        (Len(handed) = 200 /\ handed = LastChars(rawDone, 200))

\* C4 amended: 250 bytes, none of them '\n' or '\r', then '\n', hand the
\* parser a record of exactly 200 characters, the last 200 of the 250 bytes.
C4_Last200Handed ==
    (nNewlines >= 1 /\ Len(rawDone) = 250 /\ NoCR(rawDone) = rawDone) =>
        (Len(handed) = 200 /\ handed = LastChars(rawDone, 200))

\* C4 witness: such a line was handed over, and its last 200 bytes differ
\* from its first 200.
C4_Witness ==
    /\ nNewlines = 1
    /\ Len(rawDone) = 250
    /\ NoCR(rawDone) = rawDone
    /\ handed = LastChars(rawDone, 200)
    /\ handed # SubSeq(rawDone, 1, 200)

C6_StatsFromSenderFields ==
    (nParse >= 1 /\ ret = TRUE) =>
        /\ cur.cpu = FieldVal(NoCR(rawDone), 1)
        /\ cur.mem = FieldVal(NoCR(rawDone), 2)
        /\ cur.gpu = FieldVal(NoCR(rawDone), 3)
        /\ cur.diskPct = FieldVal(NoCR(rawDone), 4)
        /\ cur.diskMBps = FieldVal(NoCR(rawDone), 5)
        /\ cur.cpuTempF = FieldVal(NoCR(rawDone), 6)
        /\ cur.gpuTempF = FieldVal(NoCR(rawDone), 7)
        /\ cur.freeC = FieldVal(NoCR(rawDone), 8)
        /\ cur.freeD = FieldVal(NoCR(rawDone), 9)

-----------------------------------------------------------------------------
(* Claims about the history rings, under SpecIngest *)

\* Ring m of the three: 1 histCPU, 2 histGPU, 3 histDISK.
Ring(m) == IF m = 1 THEN histCPU ELSE IF m = 2 THEN histGPU ELSE histDISK

\* The first n accepted records carried 1, 2, ..., n in metric m.
RampOf(m, n) == Len(accLog) = n /\ \A i \in 1..n : accLog[i][m] = Milli(i)

\* C7: after exactly 60 accepted records whose tracked metric took the values
\* 1..60 in order, that metric's history read from the cursor is [1,...,60];
\* after a 61st accepted record with value 61 it is [2,...,61].
C7_RingAfter60And61 ==
    \A m \in 1..3 :
        /\ RampOf(m, 60) => HistSeq(Ring(m), histIdx) = [i \in 1..60 |-> Milli(i)]
        /\ RampOf(m, 61) => HistSeq(Ring(m), histIdx) = [i \in 1..60 |-> Milli(i + 1)]

\* C7 witness: 61 records ramping in gpu were accepted, the oldest sample read
\* is 2 and the newest 61.
C7_Witness ==
    /\ RampOf(2, 61)
    /\ HistSeq(histGPU, histIdx)[1] = Milli(2)
    /\ HistSeq(histGPU, histIdx)[60] = Milli(61)

\* C8: the cursor histIdx always lies in 0..59 and equals the number of
\* records accepted so far modulo 60.
C8_CursorCountsAccepted ==
    histIdx \in 0..59 /\ histIdx = Len(accLog) % 60

\* C8 witness: 61 records were accepted and the cursor, having wrapped, is 1.
C8_Witness == Len(accLog) = 61 /\ histIdx = 1 /\ nParse > 61

\* C9: the three rings change only when a record is accepted, and then all
\* three are written at the same index, the cursor, with cpu, gpu and diskPct
\* of that one record, and the cursor advances once; a rejected line leaves
\* histCPU, histGPU, histDISK and histIdx as they were.
C9_RingsMoveTogether ==
    [][LET parsed   == nParse' = nParse + 1
           accepted == parsed /\ ret'
           rings    == <<histCPU, histGPU, histDISK, histIdx>>
       IN  /\ rings' # rings => accepted
           /\ accepted =>
                 /\ histCPU' = [histCPU EXCEPT ![histIdx] = FieldVal(handed', 1)]
                 /\ histGPU' = [histGPU EXCEPT ![histIdx] = FieldVal(handed', 3)]
                 /\ histDISK' = [histDISK EXCEPT ![histIdx] = FieldVal(handed', 4)]
                 /\ histIdx' = (histIdx + 1) % 60
           /\ (parsed /\ ~ret') => rings' = rings]_vars

\* C9 witness: after a rejected line a record was accepted whose three
\* metrics differ, and each ring holds its metric in the slot before the cursor.
C9_Witness ==
    /\ ret = TRUE
    /\ nParse > Len(accLog)
    /\ Len(accLog) >= 2
    /\ cur.cpu # cur.gpu /\ cur.gpu # cur.diskPct /\ cur.cpu # cur.diskPct
    /\ histCPU[(histIdx + 59) % 60] = cur.cpu
    /\ histGPU[(histIdx + 59) % 60] = cur.gpu
    /\ histDISK[(histIdx + 59) % 60] = cur.diskPct

\* C10: after k < 60 accepted records since boot, each metric's history read
\* oldest to newest is 60 - k zeros followed by the k recorded samples in
\* arrival order.
C10_ZeroFilledPrefix ==
    LET k == Len(accLog)
    IN  k < 60 =>
            \A m \in 1..3 :
                HistSeq(Ring(m), histIdx) =
                    [i \in 1..60 |-> IF i <= 60 - k THEN 0 ELSE accLog[i - (60 - k)][m]]

\* C10 witness: 59 records were accepted; the oldest entry read is still the
\* zero fill and the next one the first sample.
C10_Witness ==
    /\ Len(accLog) = 59
    /\ HistSeq(histDISK, histIdx)[1] = 0
    /\ HistSeq(histDISK, histIdx)[2] = accLog[1][3]
    /\ accLog[1][3] # 0

-----------------------------------------------------------------------------
(* Claims about the order of loop(), under SpecLoop *)

\* C11 as stated: within one loop iteration at most one accepted record
\* updates Stats and the history buffers before the next render.
C11_Original == accIter <= 1

\* C11 amended: within one loop iteration the serial loop reads every byte
\* pending on the serial input before the next render; every line among them
\* is parsed, so up to as many accepted records as lines read update Stats
\* and the history buffers in that iteration, and the drawing starts only once
\* no byte is pending.
C11_DrainsAllPending ==
    /\ accIter <= nlIter
    /\ pc = "draw" => left = 0

\* C11 witness: three lines were pending at once; one iteration read them all,
\* accepted two records, and then rendered the second.
C11_Witness ==
    /\ pc = "top"
    /\ nlIter = 3
    /\ accIter = 2
    /\ Len(accLog) = 2
    /\ left = 0
    /\ seenBy = "render"
    /\ seen = cur

\* C12: every read of Stats by render or by the /metrics handler sees a
\* snapshot whose fields all come from one accepted record, or all from the
\* initial values: no reader runs between the first and the last field write
\* of parseCSVLine.
C12_WholeSnapshots == seen \in snaps \cup {StatsBoot}

\* C12 witness: two records were stored field by field, the second was
\* rendered, and a GET /metrics was then answered from the whole second record.
C12_Witness ==
    /\ seenBy = "metrics"
    /\ Cardinality(snaps) = 2
    /\ seen = cur
    /\ seen \in snaps

-----------------------------------------------------------------------------
(* Claims about the bar, under SpecBar *)

\* x lies between a and b, the ends included; nothing lies between when one
\* of the three is NaN.
InBetween(a, x, b) ==
    /\ a # NaN /\ x # NaN /\ b # NaN
    /\ (a <= x /\ x <= b) \/ (b <= x /\ x <= a)

\* |a - b| on floats that are numbers.
Dist(a, b) == IF a < b THEN b - a ELSE a - b

\* C13: in every reachable state barTarget lies in [0, 100], whatever field
\* values the accepted records carried.
C13_TargetInRange == barTarget # NaN /\ 0 <= barTarget /\ barTarget <= Milli(100)

\* C14: barValue is changed by animateBar only; a mode change with its
\* setBarTargetFromMode and the acceptance of a record leave it as it was.
C14_OnlyAnimateMovesBar ==
    [][/\ barValue' # barValue => animFlip' # animFlip
       /\ gMode' # gMode => barValue' = barValue
       /\ accLog' # accLog => barValue' = barValue]_vars

\* C14 witness: after a first frame a record was accepted and a swipe changed
\* the mode to GPU; the target stands at 100 and the bar still at 0.
C14_Witness ==
    /\ animFlip
    /\ Len(accLog) = 1
    /\ gMode = MODE_GPU
    /\ barTarget = Milli(100)
    /\ barValue = 0

\* C15: animateBar never overshoots: after each call the new barValue lies
\* between the previous barValue and barTarget, the ends included, and the
\* distance from barValue to barTarget has not grown.
C15_NoOvershoot ==
    [][animFlip' # animFlip =>
          /\ InBetween(barValue, barValue', barTarget)
          /\ Dist(barTarget, barValue') <= Dist(barTarget, barValue)]_vars

\* C16: in every reachable state barValue lies in [0, 100].
C16_ValueInRange == barValue # NaN /\ 0 <= barValue /\ barValue <= Milli(100)

\* C17: the elapsed time animateBar uses for a step lies within [0, 50 ms],
\* after a long stall and across the wrap of millis() too.
C17_DtWithinCap == lastDt >= 0 /\ lastDt <= 50

\* C17 witness: animateBar ran with millis() wrapped to a value below
\* lastAnim and used the 40 ms that had passed.
C17_Witness ==
    /\ U32Less(lastAnim, animFrom)
    /\ lastDt = 40

-----------------------------------------------------------------------------
(* Claim about the convergence of the bar, under SpecFrames *)

\* C18: with barTarget = 100 and barValue = 0, animateBar called once every
\* frame period (1/30 s) has brought barValue within 1.0 of 100 after 30
\* calls, and barValue stays within 1.0 at every later call.
C18_ConvergesIn30 ==
    (FramesGone >= 30 /\ ~FrameDue) =>
        (barTarget = Milli(100) /\ Dist(Milli(100), barValue) <= Milli(1))

\* C18 witness: the 30th frame since the record has been drawn, each call
\* having used 33 ms; the bar stands above 99 and below 100.
C18_Witness ==
    /\ FramesGone = 30
    /\ ~FrameDue
    /\ lastDt = 33
    /\ barBefore < barValue
    /\ barValue > Milli(99)
    /\ barValue < Milli(100)

-----------------------------------------------------------------------------
(* Claims about nextMode and prevMode, under SpecMode *)

\* gMode after call k of the log.
ModeAfter(k) == IF k = Len(opLog) THEN gMode ELSE modeLog[k + 1]

\* The mode that follows m in the cycle CPU, GPU, DISK, WEATHER, CPU.
CycleNext(m) ==
    IF m = MODE_CPU THEN MODE_GPU
    ELSE IF m = MODE_GPU THEN MODE_DISK
    ELSE IF m = MODE_DISK THEN MODE_WEATHER
    ELSE MODE_CPU

\* C19: nextMode follows the cycle CPU, GPU, DISK, WEATHER, CPU and four
\* calls of it in a row return to the mode they started from; prevMode in
\* CPU mode gives WEATHER; gMode is always one of 0..3.
C19_NextCycles ==
    /\ gMode \in 0..3
    /\ \A k \in 1..Len(opLog) :
          /\ opLog[k] = "next" => ModeAfter(k) = CycleNext(modeLog[k])
          /\ (opLog[k] = "prev" /\ modeLog[k] = MODE_CPU) => ModeAfter(k) = MODE_WEATHER
          /\ (k >= 4 /\ \A j \in (k - 3)..k : opLog[j] = "next") =>
                 ModeAfter(k) = modeLog[k - 3]

\* C19 witness: prevMode in CPU mode gave WEATHER, and four calls of
\* nextMode from there came back to WEATHER.
C19_Witness ==
    /\ Len(opLog) = 5
    /\ opLog = <<"prev", "next", "next", "next", "next">>
    /\ modeLog[1] = MODE_CPU
    /\ modeLog[2] = MODE_WEATHER
    /\ gMode = MODE_WEATHER

\* C20: from every mode, nextMode followed by prevMode and prevMode followed
\* by nextMode both give the mode they started from.
C20_PrevInvertsNext ==
    \A k \in 2..Len(opLog) :
        opLog[k - 1] # opLog[k] => ModeAfter(k) = modeLog[k - 1]

\* C20 witness: from WEATHER, nextMode wrapped to CPU and prevMode went back
\* to WEATHER; every mode has been a starting point of such a pair.
C20_Witness ==
    /\ Len(opLog) = 7
    /\ opLog[6] = "next" /\ opLog[7] = "prev"
    /\ modeLog[6] = MODE_WEATHER
    /\ modeLog[7] = MODE_CPU
    /\ gMode = MODE_WEATHER
    /\ {modeLog[k] : k \in 1..7} = 0..3

-----------------------------------------------------------------------------
(* Claim about the bar target at the iteration boundary, under SpecBar *)

\* The Stats field the mode shows on its bar; weather mode has no bar.
Selected(mode, c) ==
    IF mode = MODE_CPU THEN c.cpu
    ELSE IF mode = MODE_GPU THEN c.gpu
    ELSE IF mode = MODE_DISK THEN c.diskPct
    ELSE 0

\* The number of [0, 100] nearest to the number v.
Clamp100(v) == IF v < 0 THEN 0 ELSE IF v > Milli(100) THEN Milli(100) ELSE v

\* C21: at every loop-iteration boundary barTarget is the clamp to [0, 100] of
\* the Stats field the current mode selects (cpu, gpu, diskPct) and 0 in
\* weather mode; a field that is no number has no clamp other than a value of
\* [0, 100].
C21_TargetFollowsMode ==
    pc = "top" =>
        LET v == Selected(gMode, cur)
        IN  /\ barTarget # NaN /\ 0 <= barTarget /\ barTarget <= Milli(100)
            /\ v # NaN => barTarget = Clamp100(v)

-----------------------------------------------------------------------------
(* Claim about the gestures, under SpecBar *)

\* C22: long press and swipe exclude each other within a gesture: once a
\* press has triggered the long-press action, no step changes gMode before the
\* gesture is over, whatever the horizontal distance of the release.
C22_LongPressNoSwipe ==
    [][(longPressTriggered \/ longPressTriggered') => gMode' = gMode]_vars

\* C22 witness: a press at x = 60 held for more than 3 s has triggered the
\* long press; the portal is up, loop() is back at its top and the mode is
\* the one the press found.
C22_Witness ==
    /\ longPressTriggered
    /\ setupMode
    /\ touchActive
    /\ touchStartX = 60
    /\ U32Above(U32Sub(clock, touchStartTime), LONG_PRESS_MS)
    /\ pc = "top"
    /\ gMode = MODE_CPU

-----------------------------------------------------------------------------
(* Claims about the pacing of the frames, under SpecPace *)

\* C23: two consecutive renders of the PC-stats screen are at least 33 ms
\* apart, for every value of the 32-bit millisecond clock: a frame is drawn
\* only when 33 ms or more have passed since the deadline was last set.
C23_FramesApart ==
    [][animFlip' # animFlip => elapsed >= FRAME_MS]_vars

\* The deadline of the next frame has been reached in real time, outside the
\* portal and in a PC-stats mode, and an iteration of loop() begins.
Overdue ==
    /\ pc = "top"
    /\ ~setupMode
    /\ gMode # MODE_WEATHER
    /\ elapsed >= FRAME_MS

\* C30: outside setup mode and in a PC-stats mode a frame is eventually
\* rendered: once the deadline has been reached, a frame is drawn (unless the
\* device enters the portal or the weather mode first), at every clock value,
\* across the wrap and after a stall longer than the frame period.
C30_FrameComes ==
    Overdue ~> (elapsed = 0 \/ setupMode \/ gMode = MODE_WEATHER)

-----------------------------------------------------------------------------
(* Claim about rendering, under SpecBar *)

\* C24: rendering reads the history without side effects: a frame leaves
\* histCPU, histGPU, histDISK, histIdx, Stats, gMode and barTarget as they
\* were, and two renders in the same mode with no record accepted in between
\* draw the same 60-sample sequence.
C24_RenderReadsOnly ==
    [][animFlip' # animFlip =>
          /\ UNCHANGED <<histCPU, histGPU, histDISK, histIdx, cur, gMode, barTarget>>
          /\ (shown.mode = gMode /\ shown.n = Len(accLog)) =>
                 shown'.line = shown.line]_vars

\* C24 witness: a record with cpu = 100 was accepted and then rendered twice
\* in CPU mode; the sequence drawn ends with that sample, the cursor stands
\* behind it.
C24_Witness ==
    /\ Len(accLog) = 1
    /\ shown.n = 1
    /\ shown.mode = MODE_CPU
    /\ shown.line[60] = Milli(100)
    /\ shown.line[1] = 0
    /\ barBefore > 0
    /\ histIdx = 1

-----------------------------------------------------------------------------
(* Claim about long records, under SpecParse *)

\* The first n fields of a line that has more than n.
FirstFields(line, n) == SubSeq(line, 1, CommaAt(line, n) - 1)

\* C25: a record with more than 10 fields, more than 16 too, is accepted and
\* produces exactly the Stats its first 10 fields alone would produce.
C25_ExtraFieldsIgnored ==
    (nParse = 1 /\ NumFields(handed) > 10) =>
        /\ ret = TRUE
        /\ NumFields(FirstFields(handed, 10)) = 10
        /\ cur = parseCSVLine(FirstFields(handed, 10), prevCur, clock).cur

\* C25 witness: a record of 18 fields whose 17th reads "nan" was accepted;
\* cpu and indoorTempF are its fields 1 and 10.
C25_Witness ==
    /\ nParse = 1
    /\ ret = TRUE
    /\ NumFields(handed) = 18
    /\ FieldVal(handed, 17) = NaN
    /\ cur.cpu = Milli(11)
    /\ cur.indoorTempF = Milli(20)
    /\ prevCur # StatsBoot

-----------------------------------------------------------------------------
(* Claims about the serial bytes, under SpecIngest *)

\* C26: from an empty line buffer, the bytes of
\* "45,60,30,50,12.5,70,80,100,200,68" followed by '\n' leave Stats equal to
\* those ten values in schema order and the line buffer empty again.
C26_EndToEnd ==
    (nNewlines = 1 /\ rawLine = <<>> /\ rawDone = Rec10) =>
        /\ cur.cpu = Milli(45)
        /\ cur.mem = Milli(60)
        /\ cur.gpu = Milli(30)
        /\ cur.diskPct = Milli(50)
        /\ cur.diskMBps = 12500
        /\ cur.cpuTempF = Milli(70)
        /\ cur.gpuTempF = Milli(80)
        /\ cur.freeC = Milli(100)
        /\ cur.freeD = Milli(200)
        /\ cur.indoorTempF = Milli(68)
        /\ serialBuf = <<>>

\* C26 witness: that record was the first line since boot; it was accepted
\* and its cpu sample stands in slot 0 of the ring.
C26_Witness ==
    /\ nNewlines = 1
    /\ rawLine = <<>>
    /\ rawDone = Rec10
    /\ pos = Len(Rec10) + 1
    /\ ret = TRUE
    /\ Len(accLog) = 1
    /\ prevCur = StatsBoot
    /\ histCPU[0] = Milli(45)

\* The last n characters of t, all of t when it has fewer.
LastUpTo(t, n) == IF Len(t) > n THEN LastChars(t, n) ELSE t

\* C27: a '\r' byte is ignored: it leaves the line buffer, Stats, the history
\* buffers and the cursor as they were, so a line is parsed exactly like the
\* same bytes without their '\r' (a record ended by "\r\n" like the one ended
\* by "\n").
C27_CRIgnored ==
    [][/\ (pos' = pos + 1 /\ Streams[sid][pos + 1] = "\r") =>
             UNCHANGED <<serialBuf, cur, histCPU, histGPU, histDISK, histIdx>>
       /\ (pos' = pos + 1 /\ Streams[sid][pos + 1] = "\n") =>
             LET r == parseCSVLine(LastUpTo(NoCR(rawLine), 200), cur, clock)
             IN  ret' = r.ok /\ cur' = r.cur]_vars

\* C27 witness: a record with a '\r' inside its first field and "\r\n" at its
\* end was accepted; its cpu is the 12 the bytes "1\r2" spell without the '\r'.
C27_Witness ==
    /\ rawLine = <<>>
    /\ rawDone = RecInnerCR \o <<"\r">>
    /\ ret = TRUE
    /\ handed = NoCR(RecInnerCR)
    /\ cur.cpu = Milli(12)

\* C28: every '\n' byte hands the content of the line buffer to the parser
\* exactly once and leaves the buffer empty, whether the parser accepted or
\* rejected the line; no other byte calls the parser.
C28_NewlineHandsOnce ==
    [][IF pos' = pos + 1 /\ Streams[sid][pos + 1] = "\n"
       THEN /\ nParse' = nParse + 1
            /\ handed' = serialBuf
            /\ serialBuf' = <<>>
       ELSE nParse' = nParse]_vars

\* C28 witness: three '\n' were read, a rejected line, an empty line and an
\* accepted record among them; the parser was called three times and the
\* buffer is empty.
C28_Witness ==
    /\ nNewlines = 3
    /\ nParse = 3
    /\ Len(accLog) = 1
    /\ ret = TRUE
    /\ Len(handed) > 0
    /\ serialBuf = <<>>
    /\ Streams[sid][1] = "\r"

-----------------------------------------------------------------------------
(* Claim about the forecast, under SpecWeather *)

\* An entry of the feed with a non-zero "dt" falls on local day `day`.
EntryOn(day) ==
    \E k \in 1..Len(feed.list) :
        /\ feed.list[k] # 0
        /\ (feed.list[k] + data.timezoneOffset) \div kSecondsPerDay = day

\* C29: the forecast always has exactly 3 slots; after fetchForecast slot i
\* (i = 0, 1, 2) is valid exactly when at least one feed entry with a non-zero
\* timestamp falls on local day baseDay + i, entries of other days affect no
\* slot, and fetchForecast returns true exactly when at least one slot is valid.
C29_ThreeSlots ==
    fret.called =>
        /\ DOMAIN data.forecast = 0..2
        /\ \A i \in 0..2 :
              data.forecast[i].valid <=> (feed.fok /\ EntryOn(fret.baseDay + i))
        /\ fret.ret <=> \E i \in 0..2 : data.forecast[i].valid

\* C29 witness: at UTC-5 a feed of three entries (yesterday evening, today
\* 22:00, the day after tomorrow 19:00, local time) made slot 0 and slot 2
\* valid and left slot 1 invalid; fetchForecast returned true.
C29_Witness ==
    /\ fret.called /\ fret.ret
    /\ data.timezoneOffset = 0 - 18000
    /\ fret.baseDay = 20395
    /\ feed.list = <<Midnight - Hours(1), Midnight + kSecondsPerDay + Hours(3),
                     Midnight + 3 * kSecondsPerDay>>
    /\ data.forecast[0].valid
    /\ ~data.forecast[1].valid
    /\ data.forecast[2].valid
    /\ data.forecast[0].timestamp = Midnight + kSecondsPerDay + Hours(3)

-----------------------------------------------------------------------------
(* The answer to GET /metrics *)

\* C31: the "dataAgeMs" of an answer to GET /metrics is negative, -1, exactly
\* when no record has been accepted since boot, and else is the 32-bit
\* difference of millis() and the time of the last accepted record.
C31_AgeOfData ==
    [][(reqPending /\ ~reqPending') =>
          /\ ageSent'.sent
          /\ ageSent'.neg <=> Len(accLog) = 0
          /\ Len(accLog) = 0 => ageSent'.mag = U32(1)
          /\ Len(accLog) > 0 => ageSent'.mag = U32Sub(clock, cur.lastUpdateMs)]_vars

-----------------------------------------------------------------------------
(* Swipes and long presses *)

\* C32: a call of handleTouch changes the mode only at a release that ends a
\* gesture with a travel deltaX = x - touchStartX of more than 50 pixels:
\* deltaX > 50 applies prevMode once, deltaX < -50 applies nextMode once (the
\* target following the new mode), and a release with |deltaX| <= 50 leaves
\* gMode and barTarget as they are; the mode moves by one step at most.
C32_SwipeThreshold ==
    [][(pc = "touch" /\ pc' = "serial") =>
          LET inp     == touchSeen'
              deltaX  == inp.x - touchStartX
              gesture == inp.released /\ touchActive /\ ~longPressTriggered
          IN  /\ gMode' # gMode => gesture /\ (deltaX > 50 \/ deltaX < 0 - 50)
              /\ (gesture /\ deltaX > 50) =>
                     /\ gMode' = (gMode + 3) % 4
                     /\ barTarget' = setBarTargetFromMode(gMode', cur)
              /\ (gesture /\ deltaX < 0 - 50) =>
                     /\ gMode' = (gMode + 1) % 4
                     /\ barTarget' = setBarTargetFromMode(gMode', cur)
              /\ (inp.released /\ deltaX <= 50 /\ deltaX >= 0 - 50) =>
                     gMode' = gMode /\ barTarget' = barTarget
              /\ gMode' \in {gMode, (gMode + 1) % 4, (gMode + 3) % 4}]_vars

\* C32 witness: a finger put down at x = 60 was lifted at x = 10, 50 pixels to
\* the left, and the mode is still CPU; a record had been accepted before.
C32_Witness ==
    /\ pc = "serial"
    /\ touchSeen = [pressed |-> FALSE, released |-> TRUE, x |-> 10]
    /\ ~touchActive
    /\ nEvents = 3
    /\ Len(accLog) = 1
    /\ cur.cpu = Milli(100)
    /\ gMode = MODE_CPU
    /\ barTarget = Milli(100)

\* C33: enterSetupMode is called at most once, by a call of handleTouch that
\* finds the finger down more than 3000 ms after the press began, and that
\* call leaves gMode as it is; a press lifted at or before 3000 ms never
\* calls it.
C33_LongPressOnce ==
    [][nSetup' # nSetup =>
          LET held == U32Sub(clock, touchStartTime)
          IN  /\ nSetup = 0 /\ nSetup' = 1
              /\ pc = "touch"
              /\ touchSeen'.pressed
              /\ touchActive
              /\ held[1] > 0 \/ held[2] > 3000
              /\ gMode' = gMode]_vars

\* C33 witness: the finger has been down for 3001 ms, enterSetupMode has been
\* called once and the portal is open, the mode still CPU.
C33_Witness ==
    /\ nSetup = 1
    /\ setupMode
    /\ longPressTriggered
    /\ touchSeen.pressed
    /\ U32Sub(clock, touchStartTime) = U32(3001)
    /\ gMode = MODE_CPU
    /\ pc = "serial"

\* C34: once isInSetupMode() is true it stays true, and while it is true no
\* step of loop() reads serial bytes, changes cur, the history, gMode,
\* barTarget or barValue, or draws a telemetry frame.
C34_SetupHalts ==
    [][setupMode =>
          /\ setupMode'
          /\ UNCHANGED <<serialBuf, pos, nNewlines, cur, histCPU, histGPU, histDISK,
                         histIdx, gMode, barTarget, barValue, animFlip, shown>>]_vars

-----------------------------------------------------------------------------
(* Fields that are no numbers *)

\* The text t does not begin, behind white space and a sign, with a numeral.
NoNumeral(t) ==
    LET i0 == RunEnd(t, 1, {" ", "\t", "\n", "\r", "\f"})
        i1 == IF i0 <= Len(t) /\ t[i0] \in {"-", "+"} THEN i0 + 1 ELSE i0
    IN  ~ /\ i1 <= Len(t)
          /\ \/ IsDigit(t[i1])
             \/ t[i1] = "." /\ i1 + 1 <= Len(t) /\ IsDigit(t[i1 + 1])

\* C35: a line of 9 fields or more is accepted whatever its fields read, and
\* each of its first ten fields that is not a number (empty, or a text that
\* begins with no numeral) is stored as 0.0.
C35_GarbageIsZero ==
    (nParse = 1 /\ NumFields(handed) >= MIN_FIELDS) =>
        /\ ret = TRUE
        /\ \A k \in 1..10 :
              (k <= NumFields(handed) /\ NoNumeral(Field(handed, k)))
                  => cur[FieldOrder[k]] = 0

-----------------------------------------------------------------------------
(* Ingestion in weather mode *)

\* C36: outside setup mode a record is taken in the same way in every mode:
\* cur becomes what parseCSVLine makes of the line, the three rings are
\* written at the cursor and the cursor advances, in WEATHER mode too; and
\* neither animateBar nor render is called while gMode is WEATHER.
C36_IngestInAnyMode ==
    [][/\ (nParse' = nParse + 1 /\ ret' /\ ~setupMode) =>
             /\ cur' = parseCSVLine(handed', cur, clock).cur
             /\ histCPU' = [histCPU EXCEPT ![histIdx] = cur'.cpu]
             /\ histGPU' = [histGPU EXCEPT ![histIdx] = cur'.gpu]
             /\ histDISK' = [histDISK EXCEPT ![histIdx] = cur'.diskPct]
             /\ histIdx' = (histIdx + 1) % HIST_N
       /\ (animFlip' # animFlip \/ shown' # shown) => gMode # MODE_WEATHER]_vars

\* C36 witness: a swipe to the right has brought up the weather mode, and the
\* record accepted there stands in cur and in slot 0 of the rings; no frame
\* has been drawn since.
C36_Witness ==
    /\ gMode = MODE_WEATHER
    /\ ~setupMode
    /\ pc = "top"
    /\ opLog = <<>>
    /\ Len(accLog) = 1
    /\ cur.cpu = Milli(100)
    /\ histCPU[0] = Milli(100)
    /\ histDISK[0] = Milli(100) + 500
    /\ histIdx = 1
    /\ nNewlines = 1
    /\ shown.n = 0

-----------------------------------------------------------------------------
(* Failed fetches, under SpecWeather *)

\* C38: a call of getData whose current-weather request fails (no connection,
\* a status other than 200, or JSON that does not parse) returns false, sets
\* lastFetchOk to false and leaves data, the three slots included, as it was.
C38_FailedFetchKeepsData ==
    [][(nFetch' = nFetch + 1 /\ ~feed'.ok) =>
          /\ gret' = FALSE
          /\ state'.lastFetchOk = FALSE
          /\ data' = data]_vars

\* C38 witness: a first call filled data from a full answer, the second call
\* failed; data still holds the first answer, lastFetchOk is false.
C38_Witness ==
    /\ nFetch = 2
    /\ ~feed.ok
    /\ ~gret
    /\ ~state.lastFetchOk
    /\ ~fret.called
    /\ data = getData(DataBoot, StateBoot, EarlierFeed, TRUE).data
    /\ data.forecast[0].valid
    /\ data.lastUpdateEpoch = Midnight - Hours(14)

\* C39: a call of getData whose current-weather request succeeds and whose
\* forecast fails (fetchForecast returns false) returns true with lastFetchOk
\* true, and leaves all three slots as resetForecast makes them: invalid, with
\* nothing of an earlier fetch.
C39_FailedForecastResets ==
    [][(nFetch' = nFetch + 1 /\ feed'.ok /\ ~fret'.ret) =>
          /\ fret'.called
          /\ gret' = TRUE
          /\ state'.lastFetchOk = TRUE
          /\ \A i \in 0..2 :
                ~data'.forecast[i].valid /\ data'.forecast[i].timestamp = 0]_vars

\* C39 witness: a first call filled two slots from a full answer; the second
\* call got the current weather of 10:00 and no forecast, and returned true
\* with every slot invalid.
C39_Witness ==
    /\ nFetch = 2
    /\ feed.ok /\ ~feed.fok
    /\ fret.called /\ ~fret.ret
    /\ gret
    /\ state.lastFetchOk
    /\ data.lastUpdateEpoch = Midnight + Hours(10)
    /\ \A i \in 0..2 : ~data.forecast[i].valid

-----------------------------------------------------------------------------
(* The periodic weather fetch, under SpecPoll *)

-----------------------------------------------------------------------------
(* The end of setup(), under SpecSetup *)

\* The flag "configured" is stored and the stored SSID is not empty.
Saved == nvs.configured /\ nvs.ssid # ""

\* C37 as stated: at the end of setup() either the device is in setup mode
\* (no saved configuration, or no connection within the wait), or WiFi is
\* connected, the routes are registered and the weather subsystem is
\* initialised, never both; configPortalCheck passed only with the flag
\* stored and a non-empty SSID.
C37_Original ==
    bootPc = "done" =>
        /\ \/ /\ setupMode
              /\ ~routes /\ ~weatherOn
              /\ ~Saved \/ outcome = "failed"
           \/ /\ ~setupMode
              /\ wifi /\ routes /\ weatherOn
        /\ outcome \in {"nossid", "failed", "connected"} => Saved

\* C37, amended: at the end of setup() either the device is in setup mode, no
\* routes registered and the weather subsystem not initialised (no saved
\* configuration, or WiFi not connected when wifiConnect looked behind its
\* wait), or wifiConnect found WiFi connected, the routes are registered and
\* weatherInit has run, whether or not WiFi is still connected by then;
\* configPortalCheck passed only with the flag stored and a non-empty SSID.
C37_SetupOutcome ==
    bootPc = "done" =>
        /\ \/ /\ setupMode
              /\ ~routes /\ ~weatherOn
              /\ ~Saved \/ outcome = "failed"
           \/ /\ ~setupMode
              /\ outcome = "connected" /\ routes /\ weatherOn
        /\ outcome \in {"nossid", "failed", "connected"} => Saved

\* C37 witness: WiFi connected 750 ms into the wait and was lost before
\* weatherInit ran; setup() has ended outside setup mode with the routes
\* registered, the first fetch failed, and WiFi not connected.
C37_Witness ==
    /\ bootPc = "done"
    /\ ~setupMode
    /\ outcome = "connected"
    /\ routes /\ weatherOn
    /\ ~wifi
    /\ ~state.isConnected
    /\ ~gret
    /\ nEvents = 2
    /\ clock = U32(500 + 750 + 2000)
    /\ timePased = clock

====
